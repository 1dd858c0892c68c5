-------------------------------- MODULE MCFiles --------------------------------
\* Files with SPIFFS mounted in a directory of the FAT volume, and interchangeable
\* tasks and names.
EXTENDS Files, TLC
Symmetry == Permutations(Tasks) \cup Permutations(Names)
MCFatPath == <<"d">>
MCSpiffsPath == <<"d", "s">>
===============================================================================
