---------------------------------- MODULE Vfs ----------------------------------
(***************************************************************************)
(* components/vfs/esp_vfs.c: the table of registered file systems (s_vfs)  *)
(* and the table of descriptors (s_fd_table), as functions of the tables.  *)
(*                                                                         *)
(* A path is the sequence of its names, so that "a prefix followed by a    *)
(* separator or by nothing" is a prefix of the sequence.  The slots at and *)
(* above s_vfs_count are always empty, so the first empty slot below the   *)
(* count, or else the slot at the count, is the first empty slot.          *)
(***************************************************************************)
EXTENDS Integers, Sequences, SequencesExt

CONSTANTS
  VfsMax,       \* VFS_MAX_COUNT (8)
  MaxFds,       \* MAX_FDS (64)
  NULL

ASSUME VfsAssumption ==
  /\ VfsMax \in Nat \ {0} /\ MaxFds \in Nat \ {0}
  /\ NULL \notin Int

VfsIds == 0 .. VfsMax - 1
Fds == 0 .. MaxFds - 1

FD_TABLE_ENTRY_UNUSED == [vfs_index |-> -1, local_fd |-> -1]

First(S) == CHOOSE i \in S : \A j \in S : i <= j

\* The index the next registration gets, NULL when the table is full.
esp_vfs_register_common(s_vfs) ==
  LET free == {i \in VfsIds : s_vfs[i] = NULL}
  IN IF free = {} THEN NULL ELSE First(free)

\* The entries whose path prefix is path or is followed by a separator in it.
Matches(s_vfs, path) ==
  {i \in VfsIds : s_vfs[i] # NULL /\ IsPrefix(s_vfs[i].path_prefix, path)}

\* Seeded fault: the first match is taken, not the longest.
get_vfs_for_path_first(s_vfs, path) ==
  IF Matches(s_vfs, path) = {} THEN NULL ELSE First(Matches(s_vfs, path))

\* "Out of all matching path prefixes, select the longest one"; of two equal
\* ones the first keeps its place.
get_vfs_for_path(s_vfs, path) ==
  LET found == Matches(s_vfs, path)
      longest == {i \in found : \A j \in found :
                    Len(s_vfs[j].path_prefix) <= Len(s_vfs[i].path_prefix)}
  IN IF found = {} THEN NULL ELSE First(longest)

\* esp_vfs_unregister: the first entry with exactly this prefix.
find_by_prefix(s_vfs, base) ==
  LET found == {i \in VfsIds : s_vfs[i] # NULL /\ s_vfs[i].path_prefix = base}
  IN IF found = {} THEN NULL ELSE First(found)

\* esp_vfs_unregister_with_id: of the references from the descriptor table it
\* deletes those among the first VFS_MAX_COUNT descriptors.
forget_references(s_fd_table, id) ==
  [fd \in Fds |-> IF fd < VfsMax /\ s_fd_table[fd].vfs_index = id
                  THEN FD_TABLE_ENTRY_UNUSED ELSE s_fd_table[fd]]

\* The descriptor the next open gets, NULL when the table is full.
next_fd(s_fd_table) ==
  LET free == {fd \in Fds : s_fd_table[fd].vfs_index = -1}
  IN IF free = {} THEN NULL ELSE First(free)

===============================================================================
