--------------------------------- MODULE Files ---------------------------------
(***************************************************************************)
(* Tasks that open, write and close files through the virtual file system, *)
(* while FFat and SPIFFS are mounted and unmounted.  A call of esp_vfs.c   *)
(* is several steps: the two unlocked reads of the descriptor table, the   *)
(* call of the driver, and the change of the table under its lock.  The    *)
(* FAT driver's calls hold the lock of its context; write and read do not. *)
(* FatFs and SPIFFS themselves are external: their calls succeed or fail.  *)
(*                                                                         *)
(* Environment: a task uses the descriptors it opened itself; begin(),     *)
(* end() and format() are called while no call is in progress; descriptors *)
(* may be left open when a volume is unmounted, but not when SPIFFS is     *)
(* formatted.                                                              *)
(***************************************************************************)
EXTENDS Mounts, FiniteSets

CONSTANTS
  Tasks,
  Names         \* names of files

VARIABLES
  call,         \* the call each task is in
  held,         \* the descriptors each task has open
  last          \* history: the write this step made to a file, [by, file], or NULL

vars == <<mountVars, call, held, last>>

Idle == [pc |-> "idle", fd |-> NULL, vfs |-> NULL, local_fd |-> NULL]
\* A file is named by its volume and the path within it, what is left of a path
\* that the library was given.
FileOf(kind, path) == [volume |-> kind, path |-> path]
Paths == {Append(base, n) : base \in {FatPath, SpiffsPath}, n \in Names}
Rests == UNION {{SubSeq(path, k, Len(path)) : k \in 1 .. Len(path) + 1} : path \in Paths}
FilesOf(kind) == {FileOf(kind, path) : path \in Rests}
AllFiles == FilesOf("fat") \cup FilesOf("spiffs")

\* The contexts of the drivers.
Contexts == [base_path : {FatPath, FatCut, SpiffsPath, Garbage}, mounted : BOOLEAN,
             files : [Slots -> AllFiles \cup {NULL}], lock : Tasks \cup {NULL}, full : BOOLEAN]

\* A name that a file is opened by is not the mount point of the other volume.
ASSUME FilesAssumption ==
  /\ NULL \notin Tasks /\ Tasks # {}
  /\ NULL \notin Registrations /\ NULL \notin Contexts /\ NULL \notin AllFiles
  /\ NULL \notin [by : Tasks, file : AllFiles]
  /\ \A n \in Names : Append(FatPath, n) # SpiffsPath /\ Append(SpiffsPath, n) # FatPath

Init ==
  /\ MountsInit
  /\ call = [t \in Tasks |-> Idle]
  /\ held = [t \in Tasks |-> {}]
  /\ last = NULL

Goto(t, pc) == call' = [call EXCEPT ![t].pc = pc]
NoWrite == last' = NULL
Return(t) == call' = [call EXCEPT ![t] = Idle]
\* The context of the file system the call of t has looked up.
Ctx(t) == s_vfs[call[t].vfs].ctx
Slot(t) == call[t].local_fd
Unlocked(c) == mem[c].lock = NULL
mountsButMem == <<s_vfs, s_fd_table, fatVars, efs, mountpoint, noMem, undefined>>

-------------------------------------------------------------------------------
\* translate_path
translate_path(id, path) == SubSeq(path, Len(s_vfs[id].path_prefix) + 1, Len(path))

\* Seeded fault: the search always ends at the first slot.
get_next_fd_any(c) == 0

\* get_next_fd of vfs_fat.c, and SPIFFS's own search: the first slot without a file.
get_next_fd(c) ==
  LET free == {s \in Slots : mem[c].files[s] = NULL}
  IN IF free = {} THEN NULL ELSE First(free)

\* VFSImpl::open and esp_vfs_open up to the driver's open: the library prepends its
\* mount point, the path is resolved, the driver takes a slot and opens the file.
\* Every failure so far (no mount point, no file system, no slot, FatFs or SPIFFS
\* refuses) leaves no trace.
Open(t, lib, n) ==
  /\ call[t] = Idle
  /\ mountpoint[lib] # NULL
  /\ LET path == Append(mountpoint[lib], n)
         id == get_vfs_for_path(s_vfs, path)
     IN /\ id # NULL
        /\ LET c == s_vfs[id].ctx
           IN /\ mem[c] # NULL /\ mem[c].mounted /\ Unlocked(c)
              /\ get_next_fd(c) # NULL
              /\ mem' = [mem EXCEPT ![c].files[get_next_fd(c)] =
                           FileOf(c, translate_path(id, path))]
              /\ call' = [call EXCEPT ![t] =
                   [pc |-> "bind", fd |-> NULL, vfs |-> id, local_fd |-> get_next_fd(c)]]
  /\ UNCHANGED <<mountsButMem, held>>
  /\ NoWrite

\* esp_vfs_open: the first unused descriptor, under the lock of the table.
Bind(t) ==
  /\ call[t].pc = "bind"
  /\ next_fd(s_fd_table) # NULL
  /\ s_fd_table' = [s_fd_table EXCEPT ![next_fd(s_fd_table)] =
                      [vfs_index |-> call[t].vfs, local_fd |-> call[t].local_fd]]
  /\ held' = [held EXCEPT ![t] = @ \cup {next_fd(s_fd_table)}]
  /\ Return(t)
  /\ UNCHANGED <<s_vfs, mem, fatVars, efs, mountpoint, noMem, undefined>>
  /\ NoWrite

\* Seeded fault: the driver's file stays open when the table is full.
Undo_forgets(t) ==
  /\ call[t].pc = "bind"
  /\ next_fd(s_fd_table) = NULL
  /\ Return(t)
  /\ UNCHANGED <<mountVars, held>>
  /\ NoWrite

\* esp_vfs_open: with the table full the driver closes the file, ENOMEM.
Undo(t) ==
  /\ call[t].pc = "bind"
  /\ next_fd(s_fd_table) = NULL
  /\ Unlocked(Ctx(t))
  /\ mem' = [mem EXCEPT ![Ctx(t)].files[Slot(t)] = NULL]
  /\ Return(t)
  /\ UNCHANGED <<mountsButMem, held>>
  /\ NoWrite

-------------------------------------------------------------------------------
\* write, close, pread and pwrite begin alike; which of them a call is shows only when
\* it calls the driver.  First read: get_vfs_for_fd.
LookupVfs(t, fd) ==
  /\ call[t] = Idle
  /\ fd \in held[t]
  /\ s_fd_table[fd].vfs_index # -1 /\ s_vfs[s_fd_table[fd].vfs_index] # NULL
  /\ call' = [call EXCEPT ![t] = [pc |-> "local", fd |-> fd,
                vfs |-> s_fd_table[fd].vfs_index, local_fd |-> NULL]]
  /\ UNCHANGED <<mountVars, held>>
  /\ NoWrite

\* Second read: get_local_fd.
LookupLocal(t) ==
  /\ call[t].pc = "local"
  /\ call' = [call EXCEPT ![t].local_fd = s_fd_table[call[t].fd].local_fd, ![t].pc = "driver"]
  /\ UNCHANGED <<mountVars, held>>
  /\ NoWrite

\* vfs_fat_write, vfs_spiffs_write: no lock is taken.  FatFs refuses a file of a volume
\* it has forgotten.
Write(t) ==
  /\ call[t].pc = "driver"
  /\ last' = IF mem[Ctx(t)].files[Slot(t)] = NULL \/ ~mem[Ctx(t)].mounted THEN NULL
             ELSE [by |-> t, file |-> mem[Ctx(t)].files[Slot(t)]]
  /\ Return(t)
  /\ UNCHANGED <<mountVars, held>>

\* vfs_fat_close, vfs_spiffs_close.
DriverClose(t) ==
  /\ call[t].pc = "driver"
  /\ Unlocked(Ctx(t))
  /\ mem' = [mem EXCEPT ![Ctx(t)].files[Slot(t)] = NULL]
  /\ Goto(t, "clear")
  /\ UNCHANGED <<mountsButMem, held>>
  /\ NoWrite

\* esp_vfs_close: the descriptor is given back under the lock of the table.
Clear(t) ==
  /\ call[t].pc = "clear"
  /\ s_fd_table' = [s_fd_table EXCEPT ![call[t].fd] = FD_TABLE_ENTRY_UNUSED]
  /\ held' = [held EXCEPT ![t] = @ \ {call[t].fd}]
  /\ Return(t)
  /\ UNCHANGED <<s_vfs, mem, fatVars, efs, mountpoint, noMem, undefined>>
  /\ NoWrite

-------------------------------------------------------------------------------
\* pread and pwrite take the same steps; a pread writes nothing and never finds the
\* disk full.  vfs_fat_pread and vfs_fat_pwrite take the lock and move
\* the file's position; when the seek fails they release it at once.  SPIFFS has neither.
Seek(t) ==
  /\ call[t].pc = "driver"
  /\ Ctx(t) = "fat"
  /\ Unlocked(Ctx(t))
  /\ \/ /\ mem[Ctx(t)].mounted
        /\ mem' = [mem EXCEPT ![Ctx(t)].lock = t]
        /\ Goto(t, "io")
     \/ Return(t) /\ UNCHANGED mem
  /\ UNCHANGED <<mountsButMem, held>>
  /\ NoWrite

Unsupported(t) ==
  /\ call[t].pc = "driver"
  /\ Ctx(t) = "spiffs"
  /\ Return(t)
  /\ UNCHANGED <<mountVars, held>>
  /\ NoWrite

\* Seeded fault: pread returns at once when the read fails.
Transfer_returns(t) ==
  /\ call[t].pc = "io"
  /\ Return(t)
  /\ UNCHANGED <<mountVars, held>>
  /\ NoWrite

\* f_read or f_write, done or failed: the position is restored in both cases.
Transfer(t) ==
  /\ call[t].pc = "io"
  /\ Goto(t, "restore")
  /\ \/ last' = [by |-> t, file |-> mem[Ctx(t)].files[Slot(t)]]
     \/ last' = NULL
  /\ UNCHANGED <<mountVars, held>>

\* pwrite wrote nothing, the disk being full: it returns ENOSPC without restoring the
\* position and without releasing the lock.
DiskFull(t) ==
  /\ call[t].pc = "io"
  /\ mem' = [mem EXCEPT ![Ctx(t)].full = TRUE]
  /\ Return(t)
  /\ UNCHANGED <<mountsButMem, held>>
  /\ NoWrite

\* The position is restored (f_lseek to a place already visited), the lock released.
Restore(t) ==
  /\ call[t].pc = "restore"
  /\ mem' = [mem EXCEPT ![Ctx(t)].lock = NULL]
  /\ Return(t)
  /\ UNCHANGED <<mountsButMem, held>>
  /\ NoWrite

-------------------------------------------------------------------------------
Quiet == \A t \in Tasks : call[t] = Idle
\* A task forgets the descriptors of a file system that is unmounted.
StillOpen(fd) == s_vfs'[s_fd_table[fd].vfs_index] # NULL
NoSpiffsFileOpen ==
  \A t \in Tasks : \A fd \in held[t] : s_vfs[s_fd_table[fd].vfs_index].ctx # efs

Mount ==
  /\ Quiet
  /\ \/ F_Fat_begin \/ F_Fat_begin_fails \/ F_Fat_begin_fails_cut \/ F_Fat_begin_no_memory
     \/ F_Fat_end_cut \/ F_Fat_format
     \/ SPIFFS_begin
     \/ NoSpiffsFileOpen /\ (SPIFFS_format_fails \/ SPIFFS_format_frees)
  /\ UNCHANGED <<call, held>>
  /\ NoWrite

Unmount ==
  /\ Quiet
  /\ F_Fat_end \/ SPIFFS_end
  /\ held' = [t \in Tasks |-> {fd \in held[t] : StillOpen(fd)}]
  /\ UNCHANGED <<call>>
  /\ NoWrite

Step(t) ==
  \/ Bind(t) \/ Undo(t) \/ LookupLocal(t) \/ Write(t) \/ DriverClose(t) \/ Clear(t)
  \/ Seek(t) \/ Unsupported(t) \/ Transfer(t) \/ DiskFull(t) \/ Restore(t)

Start(t) ==
  \/ \E lib \in Kinds, n \in Names : Open(t, lib, n)
  \/ \E fd \in held[t] : LookupVfs(t, fd)

\* Once a registered context has been freed, or a NULL path compared, what follows is
\* undefined: no behaviour is followed beyond that point.
Next == ~undefined /\ (Mount \/ Unmount \/ \E t \in Tasks : Start(t) \/ Step(t))

Spec == Init /\ [][Next]_vars

-------------------------------------------------------------------------------
TypeOK ==
  /\ s_vfs \in [VfsIds -> Registrations \cup {NULL}]
  /\ s_fd_table \in [Fds -> [vfs_index : VfsIds, local_fd : Slots] \cup
                           {FD_TABLE_ENTRY_UNUSED}]
  /\ mem \in [Kinds -> Contexts \cup {NULL}]
  /\ mountpoint \in [Kinds -> {FatPath, SpiffsPath, NULL}]
  /\ s_fat_ctx \in Kinds \cup {NULL} /\ efs \in Kinds \cup {NULL}
  /\ s_base_path \in {FatPath, NULL} /\ inited \in BOOLEAN
  /\ call \in [Tasks -> [pc : {"idle", "bind", "local", "driver", "clear", "io", "restore"},
                         fd : Fds \cup {NULL}, vfs : VfsIds \cup {NULL},
                         local_fd : Slots \cup {NULL}]]
  /\ held \in [Tasks -> SUBSET Fds]
  /\ noMem \in BOOLEAN /\ undefined \in BOOLEAN

\* The descriptors that stand for slot s of file system id, and the calls of open()
\* that are about to make one.
References(id, s) ==
  {fd \in UNION {held[t] : t \in Tasks} :
     /\ s_fd_table[fd] = [vfs_index |-> id, local_fd |-> s]
     /\ ~\E t \in Tasks : call[t].pc = "clear" /\ call[t].fd = fd}
  \cup {t \in Tasks : call[t].pc = "bind" /\ call[t].vfs = id /\ call[t].local_fd = s}

\* The state keeps its types.  A file the driver has open is reachable through
\* exactly one descriptor (or is about to be), and a descriptor leads to an open
\* file: nothing leaks when the table or the driver's slots run out, and no two
\* descriptors share a slot (esp_vfs_open, esp_vfs_close, vfs_fat_open).  The
\* driver's context is there as long as the file system is registered, also after an
\* end() that could not unmount FFat, until SPIFFS is formatted once more after a
\* failed format (esp_spiffs_format frees a context that is still registered).  A descriptor below VFS_MAX_COUNT that is in use is
\* held by one task, whatever was unmounted meanwhile (esp_vfs_unregister_with_id).
SlotsMatchTable ==
  /\ TypeOK
  /\ \A id \in VfsIds : s_vfs[id] # NULL /\ ~undefined =>
       /\ mem[s_vfs[id].ctx] # NULL
       /\ \A s \in Slots : Cardinality(References(id, s)) =
            IF mem[s_vfs[id].ctx].files[s] = NULL THEN 0 ELSE 1
  /\ \A fd \in Fds : fd < VfsMax /\ s_fd_table[fd] # FD_TABLE_ENTRY_UNUSED =>
       Cardinality({t \in Tasks : fd \in held[t]}) = 1

\* When a library says it is mounted, its paths lead to its own volume, also where one
\* is mounted in a directory of the other, and FFat can be unmounted again; unless there
\* was no memory for its path, or the path has 14 or 15 characters: the context then
\* keeps 13, and end() never finds it (F_Fat::begin, esp_vfs_fat_register,
\* esp_vfs_fat_unregister_path, SPIFFSFS::begin, get_vfs_for_path).
MountedIsUsable ==
  undefined \/ \A lib \in Kinds : mountpoint[lib] # NULL /\ ~(lib = "fat" /\ noMem) =>
    /\ \A n \in Names : LET id == get_vfs_for_path(s_vfs, Append(mountpoint[lib], n))
                        IN id # NULL /\ s_vfs[id].ctx = lib
    /\ lib = "fat" => /\ s_fat_ctx # NULL
                      /\ \/ mem[s_fat_ctx].base_path = FatCut
                         \/ mem[s_fat_ctx].mounted /\ s_base_path = mem[s_fat_ctx].base_path

\* The lock of the FAT context is held by a task only during its pread or pwrite,
\* whatever fails in it, except after a pwrite that found the disk full
\* (vfs_fat_pread, vfs_fat_pwrite).
LockReleased ==
  \A t \in Tasks, c \in Kinds :
    mem[c] # NULL /\ mem[c].lock = t /\ ~mem[c].full => call[t].pc \in {"io", "restore"}

\* The descriptors implement the file table a task may rely on: descriptor fd is
\* bound from the end of open() until the driver has closed the file.
Bound(fd) ==
  IF \E t \in Tasks : fd \in held[t] /\ ~(call[t].pc = "clear" /\ call[t].fd = fd)
  THEN LET e == s_fd_table[fd]
       IN [by |-> CHOOSE t \in Tasks : fd \in held[t],
           file |-> mem[s_vfs[e.vfs_index].ctx].files[e.local_fd]]
  ELSE NULL

Table == INSTANCE FileTable WITH
  Descriptors <- Fds, Volumes <- {FilesOf(k) : k \in Kinds}, Unbound <- NULL,
  bound <- [fd \in Fds |-> Bound(fd)]

\* The virtual file system implements FileTable: a write reaches the file that the
\* writer's own open() named, whatever other tasks open, close or unmount.
ImplementsFileTable == Table!Spec

===============================================================================
