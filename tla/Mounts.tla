-------------------------------- MODULE Mounts --------------------------------
(***************************************************************************)
(* How the FFat and SPIFFS libraries mount and unmount their volumes:      *)
(* FFat.cpp over vfs_fat_sdspi.c and vfs_fat.c, SPIFFS.cpp over            *)
(* esp_spiffs.c, both over the registry of esp_vfs.c.                      *)
(*                                                                         *)
(* A context is the structure a registration points to (vfs_fat_ctx_t,     *)
(* esp_spiffs_t); mem[c] = NULL when it is not allocated.  There is one    *)
(* FAT context (FF_VOLUMES is 1) and SPIFFS is used with one partition, so *)
(* a context is known by its kind.                                         *)
(* begin(), end() and format() are one step each: Quiet, the condition     *)
(* under which a sketch calls them, is left to the module that adds the    *)
(* tasks.  A call that fails and has undone all it did is no step.         *)
(***************************************************************************)
EXTENDS Vfs

CONSTANTS
  MaxFiles,     \* max_files of a mount
  FatPath, SpiffsPath,
                \* the base paths begin() is called with
  FatCut,       \* what a context keeps of FatPath where that has 14 or 15 characters
  Garbage       \* what an uninitialised base_path reads as when it is no path

VARIABLES
  s_vfs, s_fd_table,
  mem,          \* the contexts
  s_fat_ctx,    \* s_fat_ctxs[0]
  s_base_path,  \* of vfs_fat_sdspi.c
  inited,       \* F_Fat::_inited
  efs,          \* _efs[0]
  mountpoint,   \* FSImpl::_mountpoint of FFat and of SPIFFS
  noMem,        \* history: FFat.begin() ran out of memory for the base path
  undefined     \* history: a registered context was freed, or a NULL path compared

mountVars == <<s_vfs, s_fd_table, mem, s_fat_ctx, s_base_path, inited, efs, mountpoint,
               noMem, undefined>>
fatVars == <<s_fat_ctx, s_base_path, inited>>

Kinds == {"fat", "spiffs"}
Slots == 0 .. MaxFiles - 1
NoFiles == [s \in Slots |-> NULL]

ASSUME MountsAssumption ==
  /\ MaxFiles \in Nat \ {0}
  /\ FatPath \in Seq(STRING) /\ SpiffsPath \in Seq(STRING)
  /\ NULL \notin Kinds /\ NULL # FatPath /\ NULL # SpiffsPath
  /\ FatPath # SpiffsPath /\ FatPath # Garbage /\ SpiffsPath # Garbage
  /\ FatCut # FatPath /\ FatCut # NULL

\* An entry of s_vfs.
Registrations == [path_prefix : {FatPath, SpiffsPath}, ctx : Kinds]

NewContext(base) ==
  [base_path |-> base, mounted |-> TRUE, files |-> NoFiles,
   lock |-> NULL, full |-> FALSE]

MountsInit ==
  /\ s_vfs = [i \in VfsIds |-> NULL]
  /\ s_fd_table = [fd \in Fds |-> FD_TABLE_ENTRY_UNUSED]
  /\ mem = [k \in Kinds |-> NULL]
  /\ s_fat_ctx = NULL /\ s_base_path = NULL /\ inited = FALSE
  /\ efs = NULL
  /\ mountpoint = [lib \in Kinds |-> NULL]
  /\ noMem = FALSE /\ undefined = FALSE

-------------------------------------------------------------------------------
\* esp_vfs_register: the entry of context c under base.
Register(base, c) ==
  /\ esp_vfs_register_common(s_vfs) # NULL
  /\ s_vfs' = [s_vfs EXCEPT ![esp_vfs_register_common(s_vfs)] =
                 [path_prefix |-> base, ctx |-> c]]

\* esp_vfs_unregister, where an entry has the prefix.
Unregister(base) ==
  LET id == find_by_prefix(s_vfs, base)
  IN /\ id # NULL
     /\ s_vfs' = [s_vfs EXCEPT ![id] = NULL]
     /\ s_fd_table' = forget_references(s_fd_table, id)

\* F_Fat::begin, the volume mounts (after formatting, if need be): the context is
\* registered and kept, the path it is known by is copied.  The registry takes a path
\* of up to 15 characters, the copy in the context keeps 13 of them.
F_Fat_begin ==
  /\ ~inited /\ s_fat_ctx = NULL
  /\ Register(FatPath, "fat")
  /\ \E base \in {FatPath, FatCut} : mem' = [mem EXCEPT !["fat"] = NewContext(base)]
  /\ s_fat_ctx' = "fat"
  /\ s_base_path' = FatPath
  /\ inited' = TRUE
  /\ mountpoint' = [mountpoint EXCEPT !["fat"] = FatPath]
  /\ UNCHANGED <<s_fd_table, efs, noMem, undefined>>

\* F_Fat::begin, register or mount fails: the error path unregisters and frees
\* what there is, and begin() does so a second time.
F_Fat_begin_fails ==
  /\ ~inited /\ s_fat_ctx = NULL
  /\ s_base_path' = NULL
  /\ UNCHANGED <<s_vfs, s_fd_table, mem, s_fat_ctx, inited, efs, mountpoint, noMem,
                 undefined>>

\* F_Fat::begin, the mount fails after a path was registered that the context cut: the
\* first unregistering finds no context and frees s_base_path, the second compares the
\* path of the context that is still there with NULL.
F_Fat_begin_fails_cut ==
  /\ ~inited /\ s_fat_ctx = NULL
  /\ Register(FatPath, "fat")
  /\ mem' = [mem EXCEPT !["fat"] = [NewContext(FatCut) EXCEPT !.mounted = FALSE]]
  /\ s_fat_ctx' = "fat"
  /\ s_base_path' = NULL
  /\ undefined' = TRUE
  /\ UNCHANGED <<s_fd_table, inited, efs, mountpoint, noMem>>

\* F_Fat::begin, there is no memory for the copy of the path: esp_vfs_fat_sdspi_mount
\* takes its error path with err still ESP_OK, and begin() believes it.
F_Fat_begin_no_memory ==
  /\ ~inited /\ s_fat_ctx = NULL
  /\ s_base_path' = NULL
  /\ inited' = TRUE
  /\ mountpoint' = [mountpoint EXCEPT !["fat"] = FatPath]
  /\ noMem' = TRUE
  /\ UNCHANGED <<s_vfs, s_fd_table, mem, s_fat_ctx, efs, undefined>>

\* F_Fat::end.  esp_vfs_fat_unregister_path finds the context by s_base_path; where
\* it finds none, end() returns with _inited still set.
F_Fat_end ==
  /\ inited /\ s_fat_ctx # NULL /\ s_base_path = mem[s_fat_ctx].base_path
  /\ Unregister(mem[s_fat_ctx].base_path)
  /\ mem' = [mem EXCEPT ![s_fat_ctx] = NULL]
  /\ s_fat_ctx' = NULL
  /\ s_base_path' = NULL
  /\ inited' = FALSE
  /\ mountpoint' = [mountpoint EXCEPT !["fat"] = NULL]
  /\ UNCHANGED <<efs, noMem, undefined>>

\* F_Fat::end, the context has another path than s_base_path: FatFs forgets the volume,
\* the context and its registration stay, and _inited with them.  The next end()
\* compares with the NULL that this one left.
F_Fat_end_cut ==
  /\ inited /\ s_fat_ctx # NULL /\ s_base_path # mem[s_fat_ctx].base_path
  /\ mem' = [mem EXCEPT ![s_fat_ctx].mounted = FALSE]
  /\ s_base_path' = NULL
  /\ undefined' = (s_base_path = NULL)
  /\ UNCHANGED <<s_vfs, s_fd_table, s_fat_ctx, inited, efs, mountpoint, noMem>>

\* F_Fat::format: formats, then mounts and unmounts under a path of its own.
F_Fat_format ==
  /\ ~inited /\ s_fat_ctx = NULL
  /\ s_base_path' = NULL
  /\ UNCHANGED <<s_vfs, s_fd_table, mem, s_fat_ctx, inited, efs, mountpoint, noMem,
                 undefined>>

-------------------------------------------------------------------------------
SpiffsMounted == efs # NULL /\ mem[efs].mounted

\* SPIFFSFS::begin, the partition mounts (after formatting, if need be).  The path is
\* appended to a base_path nobody initialised.  A context left over from a failed
\* format makes esp_spiffs_init fail.
SPIFFS_begin ==
  /\ efs = NULL
  /\ Register(SpiffsPath, "spiffs")
  /\ \E base \in {SpiffsPath, Garbage} : mem' = [mem EXCEPT !["spiffs"] = NewContext(base)]
  /\ efs' = "spiffs"
  /\ mountpoint' = [mountpoint EXCEPT !["spiffs"] = SpiffsPath]
  /\ UNCHANGED <<s_fd_table, fatVars, noMem, undefined>>

\* SPIFFSFS::end: nothing when not mounted, an error when no entry has base_path.
SPIFFS_end ==
  /\ SpiffsMounted
  /\ Unregister(mem[efs].base_path)
  /\ mem' = [mem EXCEPT ![efs] = NULL]
  /\ efs' = NULL
  /\ mountpoint' = [mountpoint EXCEPT !["spiffs"] = NULL]
  /\ UNCHANGED <<fatVars, noMem, undefined>>

\* SPIFFSFS::format of a mounted partition, when formatting it or mounting it again
\* fails: it stays unmounted and registered.  (Success changes nothing here; where
\* the partition had no context, format makes one and frees it.)
SPIFFS_format_fails ==
  /\ SpiffsMounted
  /\ mem' = [mem EXCEPT ![efs].mounted = FALSE, ![efs].files = NoFiles]
  /\ UNCHANGED <<s_vfs, s_fd_table, efs, mountpoint, fatVars, noMem, undefined>>

\* SPIFFSFS::format of a partition that has a context and is not mounted: taken for
\* one that format itself set up, the context is freed, whether it succeeds or not.
SPIFFS_format_frees ==
  /\ efs # NULL /\ ~mem[efs].mounted
  /\ mem' = [mem EXCEPT ![efs] = NULL]
  /\ efs' = NULL
  /\ undefined' = TRUE
  /\ UNCHANGED <<s_vfs, s_fd_table, mountpoint, fatVars, noMem>>

===============================================================================
