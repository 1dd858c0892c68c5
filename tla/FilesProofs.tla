----------------------------- MODULE FilesProofs ------------------------------
(***************************************************************************)
(* Theorems about Files, for any number of tasks, names, descriptors,      *)
(* registrations and slots of the drivers.                                 *)
(***************************************************************************)
EXTENDS Files, SequenceTheorems, FiniteSetTheorems, WellFoundedInduction, TLAPS

PathOf(c) == IF c = "fat" THEN FatPath ELSE SpiffsPath
Registered(id) == s_vfs[id] # NULL
CtxOf(id) == s_vfs[id].ctx

\* The FAT context: with the whole of its path it is mounted and known by it.
FatOk(c, base) ==
  /\ c.base_path \in {FatPath, FatCut}
  /\ c.base_path = FatPath => c.mounted /\ base = FatPath

(* The registry: a context is registered once, under the path of its       *)
(* library, as long as it is allocated.                                    *)
RegistryInv ==
  /\ \A id \in VfsIds : Registered(id) =>
       mem[CtxOf(id)] # NULL /\ s_vfs[id].path_prefix = PathOf(CtxOf(id))
  /\ \A i, j \in VfsIds : Registered(i) /\ Registered(j) /\ CtxOf(i) = CtxOf(j) => i = j
  /\ \A c \in Kinds : mem[c] # NULL => \E id \in VfsIds : Registered(id) /\ CtxOf(id) = c
  /\ s_fat_ctx = (IF mem["fat"] = NULL THEN NULL ELSE "fat")
  /\ efs = (IF mem["spiffs"] = NULL THEN NULL ELSE "spiffs")
  /\ mem["fat"] # NULL => FatOk(mem["fat"], s_base_path)
  /\ mem["spiffs"] # NULL => mem["spiffs"].base_path \in {SpiffsPath, Garbage}
  /\ \A lib \in Kinds : mountpoint[lib] \in {PathOf(lib), NULL}
  /\ mountpoint["fat"] # NULL => mem["fat"] # NULL \/ noMem
  /\ mountpoint["spiffs"] # NULL => mem["spiffs"] # NULL

(* What the calls under way know of the tables: nothing changes under them *)
(* but what other tasks do with other descriptors.                         *)
OnFd == {"local", "driver", "clear", "io", "restore"}
CallOk(t) ==
  /\ call[t].pc = "idle" => call[t] = Idle
  /\ call[t].pc = "bind" => /\ call[t].vfs \in VfsIds /\ Registered(call[t].vfs)
                            /\ call[t].local_fd \in Slots
  /\ call[t].pc \in OnFd => /\ call[t].fd \in held[t]
                            /\ call[t].vfs = s_fd_table[call[t].fd].vfs_index
  /\ call[t].pc \in OnFd \ {"local"} => call[t].local_fd = s_fd_table[call[t].fd].local_fd
  /\ call[t].pc \in {"io", "restore"} => CtxOf(call[t].vfs) = "fat" /\ mem["fat"].lock = t
CallInv == \A t \in Tasks : CallOk(t)

(* A descriptor in use has one holder; whoever holds one of a registered   *)
(* file system holds a slot.                                               *)
HeldInv ==
  /\ \A t, u \in Tasks : \A fd \in Fds : fd \in held[t] /\ fd \in held[u] => t = u
  /\ \A fd \in Fds : fd < VfsMax /\ s_fd_table[fd] # FD_TABLE_ENTRY_UNUSED =>
       \E t \in Tasks : fd \in held[t]

SlotInv ==
  \A t \in Tasks : \A fd \in held[t] :
    /\ s_fd_table[fd] \in [vfs_index : VfsIds, local_fd : Slots]
    /\ Registered(s_fd_table[fd].vfs_index)

(* A descriptor stands for its slot until the driver has closed the file,  *)
(* and a call of open() for the slot it took until it has a descriptor.    *)
Live(fd) == /\ \E t \in Tasks : fd \in held[t]
            /\ ~ \E t \in Tasks : call[t].pc = "clear" /\ call[t].fd = fd
Stands(fd, id, s) == Live(fd) /\ s_fd_table[fd].vfs_index = id /\ s_fd_table[fd].local_fd = s
Takes(t, id, s) == call[t].pc = "bind" /\ call[t].vfs = id /\ call[t].local_fd = s
FileAt(id, s) == mem[CtxOf(id)].files[s]

RefInv ==
  \A id \in VfsIds, s \in Slots : Registered(id) =>
    /\ \A fd \in Fds : Stands(fd, id, s) => FileAt(id, s) # NULL
    /\ \A t \in Tasks : Takes(t, id, s) => FileAt(id, s) # NULL
    /\ \A f, g \in Fds : Stands(f, id, s) /\ Stands(g, id, s) => f = g
    /\ \A t, u \in Tasks : Takes(t, id, s) /\ Takes(u, id, s) => t = u
    /\ \A f \in Fds, t \in Tasks : ~ (Stands(f, id, s) /\ Takes(t, id, s))
    /\ FileAt(id, s) # NULL => (\E fd \in Fds : Stands(fd, id, s)) \/ \E t \in Tasks : Takes(t, id, s)

\* The files of a context are of its volume.
VolumeInv ==
  \A c \in Kinds : mem[c] # NULL =>
    \A s \in Slots : mem[c].files[s] # NULL => mem[c].files[s] \in FilesOf(c)

\* SPIFFS has no lock.
LockInv ==
  /\ LockReleased
  /\ mem["spiffs"] # NULL => mem["spiffs"].lock = NULL

Sound == RegistryInv /\ CallInv /\ SlotInv /\ RefInv /\ VolumeInv
\* The inductive invariant: a registered context that has been freed leaves only what
\* does not speak of contexts.
IInv == TypeOK /\ HeldInv /\ LockInv /\ (undefined \/ Sound)
\* The states that a step is taken from.
Good == TypeOK /\ HeldInv /\ LockInv /\ Sound

-------------------------------------------------------------------------------
(* The searches of the tables.                                             *)

\* A set of numbers that is not empty has a least one, and First finds it.
LEMMA FirstIs ==
  ASSUME NEW S, S \subseteq Nat, S # {}
  PROVE  First(S) \in S
<1>1. PICK i \in S : \A j \in S : ~ (<<j, i>> \in OpToRel(<, Nat))
  BY NatLessThanWellFounded, WFMin, Zenon
<1>2. \A j \in S : j < i => <<j, i>> \in OpToRel(<, Nat)
  BY DEF OpToRel
<1>3. \A j \in S : ~ (j < i)
  BY <1>1, <1>2, Zenon
<1>4. \A j \in S : i <= j
  BY <1>3
<1> QED BY <1>4 DEF First

\* A set of numbers that is not empty and is bounded has a greatest one.
LEMMA GreatestOf ==
  ASSUME NEW S, S \subseteq Nat, S # {}, NEW n \in Nat, \A i \in S : i <= n
  PROVE  \E i \in S : \A j \in S : j <= i
<1> DEFINE D == {n - i : i \in S}
<1>1. \A i \in S : n - i \in Nat
  OBVIOUS
<1>2. D \subseteq Nat /\ D # {}
  BY <1>1
<1>3. PICK d \in D : \A e \in D : ~ (<<e, d>> \in OpToRel(<, Nat))
  <2> HIDE DEF D
  <2> QED BY <1>2, NatLessThanWellFounded, WFMin, Zenon
<1>4. \A e \in D : e < d => <<e, d>> \in OpToRel(<, Nat)
  BY <1>2 DEF OpToRel
<1>5. \A e \in D : ~ (e < d)
  BY <1>3, <1>4, Zenon
<1>6. PICK i \in S : d = n - i
  OBVIOUS
<1>7. ASSUME NEW j \in S PROVE j <= i
  <2>1. ~ (n - j < n - i)
    BY <1>5, <1>6
  <2> QED BY <2>1
<1> QED BY <1>7

\* The next free descriptor.
LEMMA NextFd ==
  ASSUME next_fd(s_fd_table) # NULL
  PROVE  next_fd(s_fd_table) \in Fds /\ s_fd_table[next_fd(s_fd_table)].vfs_index = -1
<1> DEFINE free == {fd \in Fds : s_fd_table[fd].vfs_index = -1}
<1>1. free # {} /\ next_fd(s_fd_table) = First(free)
  BY DEF next_fd
<1>2. free \subseteq Nat
  BY DEF Fds
<1>3. First(free) \in free
  <2> HIDE DEF free
  <2> QED BY <1>1, <1>2, FirstIs
<1> QED BY <1>1, <1>3

\* The next free slot of a driver.
LEMMA NextSlot ==
  ASSUME NEW c, get_next_fd(c) # NULL
  PROVE  get_next_fd(c) \in Slots /\ mem[c].files[get_next_fd(c)] = NULL
<1> DEFINE free == {s \in Slots : mem[c].files[s] = NULL}
<1>1. free # {} /\ get_next_fd(c) = First(free)
  BY DEF get_next_fd
<1>2. free \subseteq Nat
  BY DEF Slots
<1>3. First(free) \in free
  <2> HIDE DEF free
  <2> QED BY <1>1, <1>2, FirstIs
<1> QED BY <1>1, <1>3

\* The place of the next registration.
LEMMA NextVfs ==
  ASSUME NEW v, esp_vfs_register_common(v) # NULL
  PROVE  esp_vfs_register_common(v) \in VfsIds /\ v[esp_vfs_register_common(v)] = NULL
<1> DEFINE free == {i \in VfsIds : v[i] = NULL}
<1>1. free # {} /\ esp_vfs_register_common(v) = First(free)
  BY DEF esp_vfs_register_common
<1>2. free \subseteq Nat
  BY DEF VfsIds
<1>3. First(free) \in free
  <2> HIDE DEF free
  <2> QED BY <1>1, <1>2, FirstIs
<1> QED BY <1>1, <1>3

\* The entry of a prefix.
LEMMA FoundByPrefix ==
  ASSUME NEW v, NEW base, find_by_prefix(v, base) # NULL
  PROVE  /\ find_by_prefix(v, base) \in VfsIds
         /\ v[find_by_prefix(v, base)] # NULL
         /\ v[find_by_prefix(v, base)].path_prefix = base
<1> DEFINE found == {i \in VfsIds : v[i] # NULL /\ v[i].path_prefix = base}
<1>1. found # {} /\ find_by_prefix(v, base) = First(found)
  BY DEF find_by_prefix
<1>2. found \subseteq Nat
  BY DEF VfsIds
<1>3. First(found) \in found
  <2> HIDE DEF found
  <2> QED BY <1>1, <1>2, FirstIs
<1> QED BY <1>1, <1>3

\* A path resolves to an entry whose prefix is the longest of those that match.
LEMMA Resolves ==
  ASSUME NEW v, NEW path, NEW n \in Nat, Matches(v, path) # {},
         \A i \in Matches(v, path) : Len(v[i].path_prefix) \in Nat /\ Len(v[i].path_prefix) <= n
  PROVE  LET id == get_vfs_for_path(v, path)
         IN  /\ id \in Matches(v, path)
             /\ \A j \in Matches(v, path) : Len(v[j].path_prefix) <= Len(v[id].path_prefix)
<1> DEFINE found == Matches(v, path)
           longest == {i \in found : \A j \in found :
                         Len(v[j].path_prefix) <= Len(v[i].path_prefix)}
           L == {Len(v[i].path_prefix) : i \in found}
<1>1. L \subseteq Nat /\ L # {} /\ \A l \in L : l <= n
  OBVIOUS
<1>2. \E l \in L : \A m \in L : m <= l
  <2> HIDE DEF L
  <2> QED BY <1>1, GreatestOf
<1>3. longest # {}
  BY <1>2
<1>4. longest \subseteq Nat
  BY DEF Matches, VfsIds
<1>5. First(longest) \in longest
  <2> HIDE DEF longest
  <2> QED BY <1>3, <1>4, FirstIs
<1>6. get_vfs_for_path(v, path) = First(longest)
  BY DEF get_vfs_for_path
<1> QED BY <1>5, <1>6

\* An entry is found only where one matches.
LEMMA Resolved ==
  ASSUME NEW v, NEW path, get_vfs_for_path(v, path) # NULL
  PROVE  Matches(v, path) # {}
BY DEF get_vfs_for_path
-------------------------------------------------------------------------------
(* Paths.                                                                  *)
Alphabet == STRING \cup Names

LEMMA PathFacts ==
  /\ \A lib \in Kinds : PathOf(lib) \in Seq(Alphabet) /\ PathOf(lib) \in {FatPath, SpiffsPath}
  /\ \A lib \in Kinds, n \in Names : Append(PathOf(lib), n) \in Paths
  /\ Paths \subseteq Seq(Alphabet)
<1>1. FatPath \in Seq(Alphabet) /\ SpiffsPath \in Seq(Alphabet)
  BY MountsAssumption DEF Alphabet
<1>2. \A lib \in Kinds : PathOf(lib) \in {FatPath, SpiffsPath}
  BY DEF PathOf, Kinds
<1>3. \A base \in {FatPath, SpiffsPath}, n \in Names : Append(base, n) \in Seq(Alphabet)
  BY <1>1, AppendProperties DEF Alphabet
<1> QED BY <1>1, <1>2, <1>3 DEF Paths

\* What is left of a path after a prefix of it names a file.
LEMMA RestIsFile ==
  ASSUME NEW path \in Paths, NEW q \in Seq(Alphabet), IsPrefix(q, path), NEW c \in Kinds
  PROVE  FileOf(c, SubSeq(path, Len(q) + 1, Len(path))) \in FilesOf(c)
<1>1. path \in Seq(Alphabet) /\ Len(path) \in Nat /\ Len(q) \in Nat
  BY PathFacts, LenProperties
<1>2. Len(q) <= Len(path)
  BY DEF IsPrefix
<1>3. Len(q) + 1 \in 1 .. Len(path) + 1
  BY <1>1, <1>2
<1>4. SubSeq(path, Len(q) + 1, Len(path)) \in {SubSeq(path, k, Len(path)) : k \in 1 .. Len(path) + 1}
  BY <1>3
<1> QED BY <1>4 DEF FilesOf, Rests

\* A base path is a prefix of the paths below it.
LEMMA BaseMatches ==
  ASSUME NEW p \in Seq(Alphabet), NEW n \in Alphabet
  PROVE  IsPrefix(p, Append(p, n)) /\ Len(Append(p, n)) = Len(p) + 1
<1>1. /\ Append(p, n) \in Seq(Alphabet) /\ Len(Append(p, n)) = Len(p) + 1
      /\ \A i \in 1 .. Len(p) : Append(p, n)[i] = p[i]
      /\ Len(p) \in Nat
  BY AppendProperties, LenProperties
<1>2. SubSeq(p, 1, Len(p)) = SubSeq(Append(p, n), 1, Len(p))
  BY <1>1
<1> QED BY <1>1, <1>2 DEF IsPrefix

\* A prefix of a path that is no shorter than the base path is the base path or the
\* path itself.
LEMMA LongPrefix ==
  ASSUME NEW p \in Seq(Alphabet), NEW q \in Seq(Alphabet), NEW n \in Alphabet,
         IsPrefix(q, Append(p, n)), Len(p) <= Len(q)
  PROVE  q = p \/ q = Append(p, n)
<1> DEFINE path == Append(p, n)
<1>1. /\ path \in Seq(Alphabet) /\ Len(path) = Len(p) + 1
      /\ \A i \in 1 .. Len(p) : path[i] = p[i]
      /\ Len(p) \in Nat /\ Len(q) \in Nat
  BY AppendProperties, LenProperties
<1> HIDE DEF path
<1>2. Len(q) <= Len(path) /\ SubSeq(q, 1, Len(q)) = SubSeq(path, 1, Len(q))
  BY DEF IsPrefix, path
<1>3. \A i \in 1 .. Len(q) : q[i] = path[i]
  <2>1. \A i \in 1 .. Len(q) : SubSeq(q, 1, Len(q))[i] = q[i]
    BY <1>1, SubSeqProperties
  <2>2. \A i \in 1 .. Len(q) : SubSeq(path, 1, Len(q))[i] = path[i]
    BY <1>1, <1>2, SubSeqProperties
  <2> QED BY <2>1, <2>2, <1>2
<1>4. CASE Len(q) = Len(p)
  <2>1. \A i \in 1 .. Len(p) : q[i] = p[i]
    BY <1>1, <1>3, <1>4
  <2> QED BY <2>1, <1>4, SeqEqual
<1>5. CASE Len(q) = Len(p) + 1
  <2>1. \A i \in 1 .. Len(path) : q[i] = path[i]
    BY <1>1, <1>3, <1>5
  <2> QED BY <2>1, <1>1, <1>5, SeqEqual DEF path
<1> QED BY <1>1, <1>2, <1>4, <1>5

-------------------------------------------------------------------------------
(* What the steps do to a context.                                         *)

LEMMA CtxFile ==
  ASSUME NEW x \in Contexts, NEW s \in Slots, NEW f \in AllFiles \cup {NULL}
  PROVE  LET y == [x EXCEPT !.files[s] = f]
         IN  /\ y \in Contexts
             /\ y.base_path = x.base_path /\ y.mounted = x.mounted
             /\ y.lock = x.lock /\ y.full = x.full
             /\ y.files = [x.files EXCEPT ![s] = f]
BY DEF Contexts

LEMMA CtxLock ==
  ASSUME NEW x \in Contexts, NEW l \in Tasks \cup {NULL}
  PROVE  LET y == [x EXCEPT !.lock = l]
         IN  /\ y \in Contexts
             /\ y.base_path = x.base_path /\ y.mounted = x.mounted
             /\ y.lock = l /\ y.full = x.full
             /\ y.files = x.files
BY DEF Contexts

LEMMA CtxFull ==
  ASSUME NEW x \in Contexts
  PROVE  LET y == [x EXCEPT !.full = TRUE]
         IN  /\ y \in Contexts
             /\ y.base_path = x.base_path /\ y.mounted = x.mounted
             /\ y.lock = x.lock /\ y.full = TRUE
             /\ y.files = x.files
BY DEF Contexts

LEMMA CtxNew ==
  ASSUME NEW base \in {FatPath, FatCut, SpiffsPath, Garbage}
  PROVE  /\ NewContext(base) \in Contexts
         /\ NewContext(base).base_path = base /\ NewContext(base).mounted
         /\ NewContext(base).lock = NULL
         /\ \A s \in Slots : NewContext(base).files[s] = NULL
BY DEF Contexts, NewContext, NoFiles

MemType == mem \in [Kinds -> Contexts \cup {NULL}]
MemTypeNext == mem' \in [Kinds -> Contexts \cup {NULL}]
SameContexts ==
  \A d \in Kinds : /\ mem'[d] = NULL <=> mem[d] = NULL
                   /\ mem[d] # NULL => mem'[d].base_path = mem[d].base_path
                   /\ mem[d] # NULL /\ d = "fat" => mem'[d].mounted = mem[d].mounted
SameLocks ==
  \A d \in Kinds : mem[d] # NULL => mem'[d].lock = mem[d].lock /\ mem'[d].full = mem[d].full
SameFiles == \A d \in Kinds : mem[d] # NULL => mem'[d].files = mem[d].files
\* File f is put in slot s of context c.
FilePut(c, s, f) ==
  \A d \in Kinds, r \in Slots : mem[d] # NULL =>
    mem'[d].files[r] = IF d = c /\ r = s THEN f ELSE mem[d].files[r]

LEMMA SetsFile ==
  ASSUME MemType, NEW c \in Kinds, mem[c] # NULL, NEW s \in Slots,
         NEW f \in AllFiles \cup {NULL}, mem' = [mem EXCEPT ![c].files[s] = f]
  PROVE  MemTypeNext /\ SameContexts /\ SameLocks /\ FilePut(c, s, f)
<1> DEFINE y == [mem[c] EXCEPT !.files[s] = f]
<1>1. mem[c] \in Contexts
  BY DEF MemType
<1>2. /\ y \in Contexts /\ y.base_path = mem[c].base_path /\ y.mounted = mem[c].mounted
      /\ y.lock = mem[c].lock /\ y.full = mem[c].full
      /\ y.files = [mem[c].files EXCEPT ![s] = f]
  BY <1>1, CtxFile
<1>3. mem' = [mem EXCEPT ![c] = y]
  BY DEF MemType
<1> HIDE DEF y
<1>4. mem[c].files \in [Slots -> AllFiles \cup {NULL}]
  BY <1>1 DEF Contexts
<1>5. mem'[c] = y /\ \A d \in Kinds : d # c => mem'[d] = mem[d]
  BY <1>3 DEF MemType
<1>6. MemTypeNext
  BY <1>2, <1>3 DEF MemType, MemTypeNext
<1>7. y # NULL
  BY <1>2, FilesAssumption
<1>8. SameContexts /\ SameLocks
  BY <1>2, <1>5, <1>7 DEF SameContexts, SameLocks
<1>9. FilePut(c, s, f)
  BY <1>2, <1>4, <1>5 DEF FilePut
<1> QED BY <1>6, <1>8, <1>9

LEMMA SetsLock ==
  ASSUME MemType, NEW c \in Kinds, mem[c] # NULL, NEW l \in Tasks \cup {NULL},
         mem' = [mem EXCEPT ![c].lock = l]
  PROVE  /\ MemTypeNext /\ SameContexts /\ SameFiles
         /\ mem'[c].lock = l /\ mem'[c].full = mem[c].full
         /\ \A d \in Kinds : d # c => mem'[d] = mem[d]
<1> DEFINE y == [mem[c] EXCEPT !.lock = l]
<1>1. mem[c] \in Contexts
  BY DEF MemType
<1>2. /\ y \in Contexts /\ y.base_path = mem[c].base_path /\ y.mounted = mem[c].mounted
      /\ y.lock = l /\ y.full = mem[c].full /\ y.files = mem[c].files
  BY <1>1, CtxLock
<1>3. mem' = [mem EXCEPT ![c] = y]
  BY DEF MemType
<1> HIDE DEF y
<1>4. mem'[c] = y /\ \A d \in Kinds : d # c => mem'[d] = mem[d]
  BY <1>3 DEF MemType
<1>5. MemTypeNext /\ y # NULL
  BY <1>2, <1>3, FilesAssumption DEF MemType, MemTypeNext
<1> QED BY <1>2, <1>4, <1>5 DEF SameContexts, SameFiles

LEMMA SetsFull ==
  ASSUME MemType, NEW c \in Kinds, mem[c] # NULL, mem' = [mem EXCEPT ![c].full = TRUE]
  PROVE  /\ MemTypeNext /\ SameContexts /\ SameFiles
         /\ mem'[c].lock = mem[c].lock /\ mem'[c].full = TRUE
         /\ \A d \in Kinds : d # c => mem'[d] = mem[d]
<1> DEFINE y == [mem[c] EXCEPT !.full = TRUE]
<1>1. mem[c] \in Contexts
  BY DEF MemType
<1>2. /\ y \in Contexts /\ y.base_path = mem[c].base_path /\ y.mounted = mem[c].mounted
      /\ y.lock = mem[c].lock /\ y.full = TRUE /\ y.files = mem[c].files
  BY <1>1, CtxFull
<1>3. mem' = [mem EXCEPT ![c] = y]
  BY DEF MemType
<1> HIDE DEF y
<1>4. mem'[c] = y /\ \A d \in Kinds : d # c => mem'[d] = mem[d]
  BY <1>3 DEF MemType
<1>5. MemTypeNext /\ y # NULL
  BY <1>2, <1>3, FilesAssumption DEF MemType, MemTypeNext
<1> QED BY <1>2, <1>4, <1>5 DEF SameContexts, SameFiles
-------------------------------------------------------------------------------
(* What the steps do to a call.                                            *)
PCs == {"idle", "bind", "local", "driver", "clear", "io", "restore"}
Calls == [pc : PCs, fd : Fds \cup {NULL}, vfs : VfsIds \cup {NULL},
          local_fd : Slots \cup {NULL}]
CallType == call \in [Tasks -> Calls]
CallTypeNext == call' \in [Tasks -> Calls]
OthersKeep(t) == \A u \in Tasks : u # t => call'[u] = call[u]

LEMMA CallPc ==
  ASSUME NEW x \in Calls, NEW p \in PCs
  PROVE  LET y == [x EXCEPT !.pc = p]
         IN  /\ y \in Calls /\ y.pc = p
             /\ y.fd = x.fd /\ y.vfs = x.vfs /\ y.local_fd = x.local_fd
BY DEF Calls

LEMMA CallLocal ==
  ASSUME NEW x \in Calls, NEW l \in Slots
  PROVE  LET y == [x EXCEPT !.local_fd = l, !.pc = "driver"]
         IN  /\ y \in Calls /\ y.pc = "driver"
             /\ y.fd = x.fd /\ y.vfs = x.vfs /\ y.local_fd = l
BY DEF Calls, PCs

LEMMA CallSet ==
  ASSUME CallType, NEW t \in Tasks, NEW y \in Calls, call' = [call EXCEPT ![t] = y]
  PROVE  CallTypeNext /\ call'[t] = y /\ OthersKeep(t)
BY DEF CallType, CallTypeNext, OthersKeep

LEMMA IdleIs ==
  Idle \in Calls /\ Idle.pc = "idle" /\ Idle.fd = NULL
BY DEF Idle, Calls, PCs

LEMMA Returns ==
  ASSUME CallType, NEW t \in Tasks, Return(t)
  PROVE  CallTypeNext /\ call'[t] = Idle /\ call'[t].pc = "idle" /\ OthersKeep(t)
BY CallSet, IdleIs DEF Return

LEMMA Goes ==
  ASSUME CallType, NEW t \in Tasks, NEW p \in PCs, Goto(t, p)
  PROVE  /\ CallTypeNext /\ OthersKeep(t)
         /\ call'[t].pc = p /\ call'[t].fd = call[t].fd
         /\ call'[t].vfs = call[t].vfs /\ call'[t].local_fd = call[t].local_fd
<1> DEFINE y == [call[t] EXCEPT !.pc = p]
<1>1. call[t] \in Calls
  BY DEF CallType
<1>2. /\ y \in Calls /\ y.pc = p /\ y.fd = call[t].fd
      /\ y.vfs = call[t].vfs /\ y.local_fd = call[t].local_fd
  BY <1>1, CallPc
<1>3. call' = [call EXCEPT ![t] = y]
  BY DEF Goto, CallType
<1> HIDE DEF y
<1> QED BY <1>2, <1>3, CallSet

-------------------------------------------------------------------------------
(* What is known of the calls under way.                                   *)
LEMMA TypeFacts ==
  ASSUME TypeOK
  PROVE  MemType /\ CallType
BY DEF TypeOK, MemType, CallType, Calls, PCs

LEMMA RegisteredFacts ==
  ASSUME TypeOK, RegistryInv, NEW id \in VfsIds, Registered(id)
  PROVE  /\ s_vfs[id] \in Registrations /\ CtxOf(id) \in Kinds /\ mem[CtxOf(id)] # NULL
         /\ mem[CtxOf(id)] \in Contexts
         /\ mem[CtxOf(id)].files \in [Slots -> AllFiles \cup {NULL}]
<1>1. s_vfs[id] \in Registrations
  BY DEF TypeOK, Registered
<1>2. CtxOf(id) \in Kinds
  BY <1>1 DEF CtxOf, Registrations
<1>3. mem[CtxOf(id)] # NULL
  BY DEF RegistryInv
<1>4. mem[CtxOf(id)] \in Contexts
  BY <1>2, <1>3 DEF TypeOK
<1> QED BY <1>1, <1>2, <1>3, <1>4 DEF Contexts

LEMMA AtBind ==
  ASSUME TypeOK, Sound, NEW t \in Tasks, call[t].pc = "bind"
  PROVE  /\ call[t].vfs \in VfsIds /\ Registered(call[t].vfs) /\ Slot(t) \in Slots
         /\ Ctx(t) = CtxOf(call[t].vfs) /\ Ctx(t) \in Kinds /\ mem[Ctx(t)] # NULL
         /\ Takes(t, call[t].vfs, Slot(t))
BY RegisteredFacts DEF Sound, CallInv, CallOk, Ctx, CtxOf, Slot, Takes

LEMMA AtFd ==
  ASSUME TypeOK, Sound, NEW t \in Tasks, call[t].pc \in OnFd
  PROVE  /\ call[t].fd \in held[t] /\ call[t].fd \in Fds
         /\ s_fd_table[call[t].fd] \in [vfs_index : VfsIds, local_fd : Slots]
         /\ call[t].vfs = s_fd_table[call[t].fd].vfs_index
         /\ call[t].vfs \in VfsIds /\ Registered(call[t].vfs)
         /\ s_fd_table[call[t].fd].local_fd \in Slots
         /\ Ctx(t) = CtxOf(call[t].vfs) /\ Ctx(t) \in Kinds /\ mem[Ctx(t)] # NULL
         /\ call[t].pc # "local" =>
              Slot(t) = s_fd_table[call[t].fd].local_fd /\ Slot(t) \in Slots
<1>1. call[t].fd \in held[t] /\ call[t].vfs = s_fd_table[call[t].fd].vfs_index
  BY DEF Sound, CallInv, CallOk
<1>2. call[t].fd \in Fds
  BY <1>1 DEF TypeOK
<1>3. /\ s_fd_table[call[t].fd] \in [vfs_index : VfsIds, local_fd : Slots]
      /\ Registered(s_fd_table[call[t].fd].vfs_index)
  BY <1>1 DEF Sound, SlotInv
<1>4. s_fd_table[call[t].fd].vfs_index \in VfsIds /\ s_fd_table[call[t].fd].local_fd \in Slots
  BY <1>3
<1>5. call[t].pc # "local" => Slot(t) = s_fd_table[call[t].fd].local_fd
  BY DEF Sound, CallInv, CallOk, Slot
<1>6. CtxOf(call[t].vfs) \in Kinds /\ mem[CtxOf(call[t].vfs)] # NULL
  BY <1>1, <1>3, <1>4, RegisteredFacts DEF Sound
<1> QED BY <1>1, <1>2, <1>3, <1>4, <1>5, <1>6 DEF Ctx, CtxOf

\* The descriptor of a call is live until the driver has closed the file.
LEMMA LiveCall ==
  ASSUME TypeOK, HeldInv, Sound, NEW t \in Tasks, call[t].pc \in OnFd \ {"clear"}
  PROVE  Live(call[t].fd)
<1>1. call[t].fd \in held[t] /\ call[t].fd \in Fds
  BY AtFd
<1>2. ASSUME NEW u \in Tasks, call[u].pc = "clear", call[u].fd = call[t].fd PROVE FALSE
  <2>1. call[u].fd \in held[u]
    BY <1>2, AtFd DEF OnFd
  <2>2. u = t
    BY <1>1, <1>2, <2>1 DEF HeldInv
  <2> QED BY <1>2, <2>2
<1> QED BY <1>1, <1>2 DEF Live
-------------------------------------------------------------------------------
(* What the steps of the tasks have in common: the registry stays.         *)
Fixed ==
  /\ s_vfs' = s_vfs /\ s_fat_ctx' = s_fat_ctx /\ s_base_path' = s_base_path
  /\ inited' = inited /\ efs' = efs /\ mountpoint' = mountpoint
  /\ noMem' = noMem /\ undefined' = undefined
SameTable == s_fd_table' = s_fd_table /\ held' = held
TableTypeNext ==
  /\ s_fd_table' \in [Fds -> [vfs_index : VfsIds, local_fd : Slots] \cup {FD_TABLE_ENTRY_UNUSED}]
  /\ held' \in [Tasks -> SUBSET Fds]

LEMMA TypeKept ==
  ASSUME TypeOK, Fixed, MemTypeNext, CallTypeNext, SameTable \/ TableTypeNext
  PROVE  TypeOK'
BY DEF TypeOK, Fixed, MemTypeNext, CallTypeNext, SameTable, TableTypeNext, Calls, PCs

LEMMA RegistryKept ==
  ASSUME TypeOK, RegistryInv, Fixed, SameContexts
  PROVE  RegistryInv'
<1>1. \A id \in VfsIds : (Registered(id)' <=> Registered(id)) /\ CtxOf(id)' = CtxOf(id)
  BY DEF Fixed, Registered, CtxOf
<1>2. \A id \in VfsIds : Registered(id) => CtxOf(id) \in Kinds
  BY RegisteredFacts
<1>3. \A id \in VfsIds : Registered(id)' =>
        mem'[CtxOf(id)'] # NULL /\ s_vfs'[id].path_prefix = PathOf(CtxOf(id)')
  BY <1>1, <1>2 DEF RegistryInv, SameContexts, Fixed
<1>4. \A i, j \in VfsIds : Registered(i)' /\ Registered(j)' /\ CtxOf(i)' = CtxOf(j)' => i = j
  BY <1>1 DEF RegistryInv
<1>5. \A c \in Kinds : mem'[c] # NULL => \E id \in VfsIds : Registered(id)' /\ CtxOf(id)' = c
  BY <1>1 DEF RegistryInv, SameContexts
<1>6. /\ s_fat_ctx' = (IF mem'["fat"] = NULL THEN NULL ELSE "fat")
      /\ efs' = (IF mem'["spiffs"] = NULL THEN NULL ELSE "spiffs")
      /\ mem'["fat"] # NULL => FatOk(mem'["fat"], s_base_path')
      /\ mem'["spiffs"] # NULL => mem'["spiffs"].base_path \in {SpiffsPath, Garbage}
      /\ \A lib \in Kinds : mountpoint'[lib] \in {PathOf(lib), NULL}
      /\ mountpoint'["fat"] # NULL => mem'["fat"] # NULL \/ noMem'
      /\ mountpoint'["spiffs"] # NULL => mem'["spiffs"] # NULL
  BY DEF RegistryInv, SameContexts, Fixed, Kinds, FatOk
<1> QED BY <1>3, <1>4, <1>5, <1>6 DEF RegistryInv, PathOf

LEMMA VolumeKept ==
  ASSUME VolumeInv, SameContexts,
         SameFiles \/ \E c \in Kinds, s \in Slots : \E f \in FilesOf(c) \cup {NULL} : FilePut(c, s, f)
  PROVE  VolumeInv'
<1>1. CASE SameFiles
  BY <1>1 DEF VolumeInv, SameContexts, SameFiles
<1>2. ASSUME NEW c \in Kinds, NEW s \in Slots, NEW f \in FilesOf(c) \cup {NULL}, FilePut(c, s, f)
      PROVE  VolumeInv'
  <2>1. SUFFICES ASSUME NEW d \in Kinds, mem'[d] # NULL, NEW r \in Slots, mem'[d].files[r] # NULL
                 PROVE  mem'[d].files[r] \in FilesOf(d)
    BY DEF VolumeInv
  <2>2. mem[d] # NULL /\ mem'[d].files[r] = IF d = c /\ r = s THEN f ELSE mem[d].files[r]
    BY <1>2, <2>1 DEF SameContexts, FilePut
  <2> QED BY <2>1, <2>2, <1>2 DEF VolumeInv
<1> QED BY <1>1, <1>2

\* A call that the step does not touch, nor its descriptor or its lock.
LEMMA CallKept ==
  ASSUME NEW u \in Tasks, CallOk(u), Fixed, call'[u] = call[u],
         call[u].pc \in OnFd =>
           call[u].fd \in held'[u] /\ s_fd_table'[call[u].fd] = s_fd_table[call[u].fd],
         call[u].pc \in {"io", "restore"} => mem'["fat"].lock = u
  PROVE  CallOk(u)'
<1>1. \A id \in VfsIds : Registered(id)' <=> Registered(id)
  BY DEF Registered, Fixed
<1>2. CtxOf(call[u].vfs)' = CtxOf(call[u].vfs)
  BY DEF CtxOf, Fixed
<1>3. call[u].pc \in {"io", "restore"} => CtxOf(call[u].vfs)' = "fat"
  BY <1>2 DEF CallOk
<1> QED BY <1>1, <1>3 DEF CallOk, OnFd

LEMMA IdleOk ==
  ASSUME NEW u \in Tasks, call'[u] = Idle
  PROVE  CallOk(u)'
BY IdleIs DEF CallOk, OnFd, Idle

\* The lock of the FAT context is the one of the call that reads or writes.
LEMMA LockOf ==
  ASSUME TypeOK, Sound, NEW u \in Tasks, call[u].pc \in {"io", "restore"}
  PROVE  Ctx(u) = "fat" /\ mem["fat"] # NULL /\ mem["fat"].lock = u
<1>1. CtxOf(call[u].vfs) = "fat" /\ mem["fat"].lock = u
  BY DEF Sound, CallInv, CallOk
<1>2. Ctx(u) = CtxOf(call[u].vfs) /\ mem[Ctx(u)] # NULL
  BY AtFd DEF OnFd
<1> QED BY <1>1, <1>2

LEMMA LockKept ==
  ASSUME LockInv, SameContexts, SameLocks,
         \A u \in Tasks : call[u].pc \in {"io", "restore"} => call'[u].pc \in {"io", "restore"}
  PROVE  LockInv'
<1>1. mem'["spiffs"] # NULL => mem'["spiffs"].lock = NULL
  BY DEF LockInv, SameContexts, SameLocks, Kinds
<1>2. LockReleased'
  BY DEF LockInv, LockReleased, SameContexts, SameLocks
<1> QED BY <1>1, <1>2 DEF LockInv

\* Steps after which descriptors, slots and calls of open() stand as they stood.
NeutralStep(t) ==
  /\ Fixed /\ SameTable /\ OthersKeep(t) /\ CallTypeNext
  /\ MemTypeNext /\ SameContexts /\ SameFiles
  /\ call[t].pc \notin {"bind", "clear"} /\ call'[t].pc \notin {"bind", "clear"}

LEMMA NeutralViews ==
  ASSUME TypeOK, RegistryInv, NEW t \in Tasks, NeutralStep(t)
  PROVE  /\ \A fd \in Fds : Live(fd)' <=> Live(fd)
         /\ \A u \in Tasks, id \in VfsIds, s \in Slots : Takes(u, id, s)' <=> Takes(u, id, s)
         /\ \A id \in VfsIds, s \in Slots : Registered(id) => FileAt(id, s)' = FileAt(id, s)
<1>1. \A u \in Tasks : (call'[u].pc \in {"bind", "clear"} \/ call[u].pc \in {"bind", "clear"})
                        => call'[u] = call[u]
  BY DEF NeutralStep, OthersKeep
<1>2. \A fd \in Fds : Live(fd)' <=> Live(fd)
  BY <1>1 DEF Live, NeutralStep, SameTable
<1>3. \A u \in Tasks, id \in VfsIds, s \in Slots : Takes(u, id, s)' <=> Takes(u, id, s)
  BY <1>1 DEF Takes
<1>4. \A id \in VfsIds : Registered(id) => CtxOf(id) \in Kinds /\ mem[CtxOf(id)] # NULL
  BY RegisteredFacts
<1>5. \A id \in VfsIds, s \in Slots : Registered(id) => FileAt(id, s)' = FileAt(id, s)
  BY <1>4 DEF FileAt, CtxOf, NeutralStep, Fixed, SameFiles
<1> QED BY <1>2, <1>3, <1>5

LEMMA NeutralKeeps ==
  ASSUME TypeOK, HeldInv, Sound, NEW t \in Tasks, NeutralStep(t)
  PROVE  TypeOK' /\ HeldInv' /\ RegistryInv' /\ SlotInv' /\ RefInv' /\ VolumeInv'
<1>1. TypeOK'
  BY TypeKept DEF NeutralStep
<1>2. HeldInv'
  BY DEF NeutralStep, SameTable, HeldInv
<1>3. RegistryInv' /\ VolumeInv'
  BY RegistryKept, VolumeKept DEF NeutralStep, Sound
<1>4. SlotInv'
  BY DEF NeutralStep, SameTable, Fixed, Sound, SlotInv, Registered
<1>5. RefInv'
  <2>1. \A fd \in Fds, id \in VfsIds, s \in Slots : Stands(fd, id, s)' <=> Stands(fd, id, s)
    BY NeutralViews DEF Stands, NeutralStep, SameTable, Sound
  <2>2. \A id \in VfsIds : Registered(id)' <=> Registered(id)
    BY DEF NeutralStep, Fixed, Registered
  <2> QED BY <2>1, <2>2, NeutralViews DEF RefInv, Sound
<1> QED BY <1>1, <1>2, <1>3, <1>4, <1>5
-------------------------------------------------------------------------------
(* The steps that leave descriptors and slots as they are.                 *)
LEMMA NeutralGood ==
  ASSUME Good, NEW t \in Tasks, NeutralStep(t), CallOk(t)', LockInv',
         \A u \in Tasks : u # t /\ call[u].pc \in {"io", "restore"} => mem'["fat"].lock = u
  PROVE  Good'
<1>1. TypeOK' /\ HeldInv' /\ RegistryInv' /\ SlotInv' /\ RefInv' /\ VolumeInv'
  BY NeutralKeeps DEF Good
<1>2. ASSUME NEW u \in Tasks, u # t PROVE CallOk(u)'
  <2>1. CallOk(u) /\ Fixed /\ SameTable /\ call'[u] = call[u]
    BY <1>2 DEF Good, Sound, CallInv, NeutralStep, OthersKeep
  <2>2. call[u].pc \in OnFd =>
          call[u].fd \in held'[u] /\ s_fd_table'[call[u].fd] = s_fd_table[call[u].fd]
    BY <2>1 DEF CallOk, SameTable
  <2> QED BY <1>2, <2>1, <2>2, CallKept
<1>3. CallInv'
  BY <1>2 DEF CallInv
<1> QED BY <1>1, <1>3 DEF Good, Sound

\* The same, when no lock changes hands.
LEMMA QuietGood ==
  ASSUME Good, NEW t \in Tasks, NeutralStep(t), CallOk(t)', SameLocks,
         call[t].pc \in {"io", "restore"} => call'[t].pc \in {"io", "restore"}
  PROVE  Good'
<1>1. \A u \in Tasks : call[u].pc \in {"io", "restore"} => call'[u].pc \in {"io", "restore"}
  BY DEF NeutralStep, OthersKeep
<1>2. LockInv'
  BY <1>1, LockKept DEF Good, NeutralStep
<1>3. \A u \in Tasks : call[u].pc \in {"io", "restore"} => mem'["fat"].lock = u
  BY LockOf DEF Good, SameLocks, Kinds
<1> QED BY <1>2, <1>3, NeutralGood

LEMMA SameMem ==
  ASSUME TypeOK, mem' = mem
  PROVE  MemTypeNext /\ SameContexts /\ SameFiles /\ SameLocks
BY DEF TypeOK, MemTypeNext, SameContexts, SameFiles, SameLocks

LEMMA FixedMounts ==
  ASSUME UNCHANGED mountVars, UNCHANGED held
  PROVE  Fixed /\ SameTable /\ mem' = mem
BY DEF mountVars, Fixed, SameTable

LEMMA FixedButMem ==
  ASSUME UNCHANGED mountsButMem, UNCHANGED held
  PROVE  Fixed /\ SameTable
BY DEF mountsButMem, fatVars, Fixed, SameTable

LEMMA LookupVfsStep ==
  ASSUME Good, NEW t \in Tasks, NEW fd \in held[t], LookupVfs(t, fd)
  PROVE  NeutralStep(t) /\ Good'
<1> DEFINE y == [pc |-> "local", fd |-> fd, vfs |-> s_fd_table[fd].vfs_index,
                 local_fd |-> NULL]
<1>1. fd \in Fds /\ s_fd_table[fd] \in [vfs_index : VfsIds, local_fd : Slots]
  BY DEF Good, TypeOK, Sound, SlotInv
<1>2. s_fd_table[fd].vfs_index \in VfsIds
  BY <1>1
<1>3. y \in Calls
  BY <1>1, <1>2 DEF Calls, PCs
<1>4. CallType /\ call' = [call EXCEPT ![t] = y] /\ call[t].pc = "idle"
  BY TypeFacts, IdleIs DEF LookupVfs, Good
<1>5. y.pc = "local" /\ y.fd = fd /\ y.vfs = s_fd_table[fd].vfs_index
  OBVIOUS
<1> HIDE DEF y
<1>6. CallTypeNext /\ call'[t] = y /\ OthersKeep(t)
  BY <1>3, <1>4, CallSet
<1>7. Fixed /\ SameTable /\ mem' = mem
  BY FixedMounts DEF LookupVfs
<1>8. MemTypeNext /\ SameContexts /\ SameFiles /\ SameLocks
  BY <1>7, SameMem DEF Good
<1>9. NeutralStep(t)
  BY <1>4, <1>5, <1>6, <1>7, <1>8 DEF NeutralStep
<1>10. CallOk(t)'
  BY <1>5, <1>6, <1>7 DEF CallOk, OnFd, SameTable
<1> QED BY <1>4, <1>8, <1>9, <1>10, QuietGood

LEMMA LookupLocalStep ==
  ASSUME Good, NEW t \in Tasks, LookupLocal(t)
  PROVE  NeutralStep(t) /\ Good'
<1> DEFINE l == s_fd_table[call[t].fd].local_fd
           y == [call[t] EXCEPT !.local_fd = l, !.pc = "driver"]
<1>1. /\ call[t].pc = "local" /\ call[t].fd \in held[t] /\ l \in Slots
      /\ call[t].vfs = s_fd_table[call[t].fd].vfs_index
  BY AtFd DEF LookupLocal, Good, OnFd
<1>2. CallType /\ call[t] \in Calls
  BY TypeFacts DEF Good, CallType
<1>3. /\ y \in Calls /\ y.pc = "driver" /\ y.fd = call[t].fd /\ y.vfs = call[t].vfs
      /\ y.local_fd = l
  BY <1>1, <1>2, CallLocal
<1>4. call' = [call EXCEPT ![t] = y]
  BY <1>2 DEF LookupLocal, CallType
<1> HIDE DEF y
<1>6. CallTypeNext /\ call'[t] = y /\ OthersKeep(t)
  BY <1>2, <1>3, <1>4, CallSet
<1>7. Fixed /\ SameTable /\ mem' = mem
  BY FixedMounts DEF LookupLocal
<1>8. MemTypeNext /\ SameContexts /\ SameFiles /\ SameLocks
  BY <1>7, SameMem DEF Good
<1>9. NeutralStep(t)
  BY <1>1, <1>3, <1>6, <1>7, <1>8 DEF NeutralStep
<1>10. CallOk(t)'
  BY <1>1, <1>3, <1>6, <1>7 DEF CallOk, OnFd, SameTable
<1> QED BY <1>1, <1>8, <1>9, <1>10, QuietGood

\* Steps that end a call and change nothing else but the history.
LEMMA EndStep ==
  ASSUME Good, NEW t \in Tasks, call[t].pc = "driver", Return(t), UNCHANGED <<mountVars, held>>
  PROVE  NeutralStep(t) /\ Good'
<1>1. CallTypeNext /\ call'[t] = Idle /\ call'[t].pc = "idle" /\ OthersKeep(t)
  BY Returns, TypeFacts DEF Good
<1>2. Fixed /\ SameTable /\ mem' = mem
  BY FixedMounts
<1>3. MemTypeNext /\ SameContexts /\ SameFiles /\ SameLocks
  BY <1>2, SameMem DEF Good
<1>4. NeutralStep(t) /\ CallOk(t)'
  BY <1>1, <1>2, <1>3, IdleOk DEF NeutralStep
<1> QED BY <1>3, <1>4, QuietGood

LEMMA WriteStep ==
  ASSUME Good, NEW t \in Tasks, Write(t)
  PROVE  NeutralStep(t) /\ Good'
BY EndStep DEF Write

LEMMA UnsupportedStep ==
  ASSUME Good, NEW t \in Tasks, Unsupported(t)
  PROVE  NeutralStep(t) /\ Good'
BY EndStep DEF Unsupported

LEMMA TransferStep ==
  ASSUME Good, NEW t \in Tasks, Transfer(t)
  PROVE  NeutralStep(t) /\ Good'
<1>1. call[t].pc = "io" /\ Goto(t, "restore") /\ "restore" \in PCs
  BY DEF Transfer, PCs
<1>2. /\ CallTypeNext /\ OthersKeep(t)
      /\ call'[t].pc = "restore" /\ call'[t].fd = call[t].fd
      /\ call'[t].vfs = call[t].vfs /\ call'[t].local_fd = call[t].local_fd
  BY <1>1, Goes, TypeFacts DEF Good
<1>3. Fixed /\ SameTable /\ mem' = mem
  BY FixedMounts DEF Transfer
<1>4. MemTypeNext /\ SameContexts /\ SameFiles /\ SameLocks
  BY <1>3, SameMem DEF Good
<1>5. NeutralStep(t)
  BY <1>1, <1>2, <1>3, <1>4 DEF NeutralStep
<1>6. CallOk(t)'
  <2>1. CallOk(t)
    BY DEF Good, Sound, CallInv
  <2>2. CtxOf(call[t].vfs)' = CtxOf(call[t].vfs)
    BY <1>2, <1>3 DEF CtxOf, Fixed
  <2> QED BY <1>1, <1>2, <1>3, <2>1, <2>2 DEF CallOk, OnFd, SameTable
<1> QED BY <1>2, <1>4, <1>5, <1>6, QuietGood

LEMMA RestoreStep ==
  ASSUME Good, NEW t \in Tasks, Restore(t)
  PROVE  NeutralStep(t) /\ Good'
<1>1. call[t].pc = "restore" /\ Ctx(t) = "fat" /\ mem["fat"] # NULL /\ mem["fat"].lock = t
  BY LockOf DEF Restore, Good
<1>2. CallTypeNext /\ call'[t] = Idle /\ call'[t].pc = "idle" /\ OthersKeep(t)
  BY Returns, TypeFacts DEF Good, Restore
<1>3. Fixed /\ SameTable
  BY FixedButMem DEF Restore
<1>4. /\ MemTypeNext /\ SameContexts /\ SameFiles
      /\ mem'["fat"].lock = NULL
      /\ \A d \in Kinds : d # "fat" => mem'[d] = mem[d]
  BY <1>1, SetsLock, TypeFacts DEF Restore, Good, Kinds
<1>5. NeutralStep(t) /\ CallOk(t)'
  BY <1>1, <1>2, <1>3, <1>4, IdleOk DEF NeutralStep
<1>6. LockInv'
  <2>1. mem'["spiffs"] = mem["spiffs"]
    BY <1>4 DEF Kinds
  <2>2. \A u \in Tasks, c \in Kinds : mem'[c] # NULL => mem'[c].lock # u
    BY <1>4, <2>1, FilesAssumption DEF Good, LockInv, Kinds
  <2> QED BY <2>1, <2>2 DEF Good, LockInv, LockReleased
<1>7. \A u \in Tasks : u # t => call[u].pc \notin {"io", "restore"}
  BY <1>1, LockOf DEF Good
<1> QED BY <1>5, <1>6, <1>7, NeutralGood

LEMMA DiskFullStep ==
  ASSUME Good, NEW t \in Tasks, DiskFull(t)
  PROVE  NeutralStep(t) /\ Good'
<1>1. call[t].pc = "io" /\ Ctx(t) = "fat" /\ mem["fat"] # NULL /\ mem["fat"].lock = t
  BY LockOf DEF DiskFull, Good
<1>2. CallTypeNext /\ call'[t] = Idle /\ call'[t].pc = "idle" /\ OthersKeep(t)
  BY Returns, TypeFacts DEF Good, DiskFull
<1>3. Fixed /\ SameTable
  BY FixedButMem DEF DiskFull
<1>4. /\ MemTypeNext /\ SameContexts /\ SameFiles
      /\ mem'["fat"].full = TRUE
      /\ \A d \in Kinds : d # "fat" => mem'[d] = mem[d]
  BY <1>1, SetsFull, TypeFacts DEF DiskFull, Good, Kinds
<1>5. NeutralStep(t) /\ CallOk(t)'
  BY <1>1, <1>2, <1>3, <1>4, IdleOk DEF NeutralStep
<1>6. LockInv'
  <2>1. mem'["spiffs"] = mem["spiffs"]
    BY <1>4 DEF Kinds
  <2>2. \A u \in Tasks, c \in Kinds : mem'[c] # NULL => mem'[c].lock # u \/ mem'[c].full
    BY <1>4, <2>1, FilesAssumption DEF Good, LockInv, Kinds
  <2> QED BY <2>1, <2>2 DEF Good, LockInv, LockReleased
<1>7. \A u \in Tasks : u # t => call[u].pc \notin {"io", "restore"}
  BY <1>1, LockOf DEF Good
<1> QED BY <1>5, <1>6, <1>7, NeutralGood

LEMMA SeekStep ==
  ASSUME Good, NEW t \in Tasks, Seek(t)
  PROVE  NeutralStep(t) /\ Good'
<1>1. /\ call[t].pc = "driver" /\ Ctx(t) = "fat" /\ mem["fat"] # NULL /\ mem["fat"].lock = NULL
      /\ Ctx(t) = CtxOf(call[t].vfs)
  BY AtFd DEF Seek, Good, OnFd, Unlocked
<1>2. CASE Return(t) /\ UNCHANGED mem
  <2>1. UNCHANGED <<mountVars, held>>
    BY <1>2 DEF Seek, mountVars, mountsButMem, fatVars
  <2> QED BY <1>1, <1>2, <2>1, EndStep
<1>3. CASE mem' = [mem EXCEPT ![Ctx(t)].lock = t] /\ Goto(t, "io")
  <2>1. /\ CallTypeNext /\ OthersKeep(t)
        /\ call'[t].pc = "io" /\ call'[t].fd = call[t].fd
        /\ call'[t].vfs = call[t].vfs /\ call'[t].local_fd = call[t].local_fd
    BY <1>3, Goes, TypeFacts DEF Good, PCs
  <2>2. Fixed /\ SameTable
    BY FixedButMem DEF Seek
  <2>3. /\ MemTypeNext /\ SameContexts /\ SameFiles
        /\ mem'["fat"].lock = t
        /\ \A d \in Kinds : d # "fat" => mem'[d] = mem[d]
    BY <1>1, <1>3, SetsLock, TypeFacts DEF Good, Kinds
  <2>4. NeutralStep(t)
    BY <1>1, <2>1, <2>2, <2>3 DEF NeutralStep
  <2>5. CallOk(t)'
    <3>1. CallOk(t)
      BY DEF Good, Sound, CallInv
    <3>2. CtxOf(call[t].vfs)' = CtxOf(call[t].vfs)
      BY <2>1, <2>2 DEF CtxOf, Fixed
    <3> QED BY <1>1, <2>1, <2>2, <2>3, <3>1, <3>2 DEF CallOk, OnFd, SameTable
  <2>6. LockInv'
    <3>1. mem'["spiffs"] = mem["spiffs"]
      BY <2>3 DEF Kinds
    <3>2. \A u \in Tasks, c \in Kinds : mem'[c] # NULL /\ mem'[c].lock = u => u = t
      BY <2>3, <3>1, FilesAssumption DEF Good, LockInv, Kinds
    <3> QED BY <2>1, <3>1, <3>2 DEF Good, LockInv, LockReleased
  <2>7. \A u \in Tasks : call[u].pc \notin {"io", "restore"}
    BY <1>1, LockOf, FilesAssumption DEF Good
  <2> QED BY <2>4, <2>5, <2>6, <2>7, NeutralGood
<1> QED BY <1>2, <1>3 DEF Seek
-------------------------------------------------------------------------------
(* The steps that open and close.  First what they have in common.         *)
LEMMA PutView ==
  ASSUME TypeOK, RegistryInv, Fixed, NEW id \in VfsIds, Registered(id), NEW s \in Slots, NEW f,
         FilePut(CtxOf(id), s, f)
  PROVE  \A i \in VfsIds, r \in Slots : Registered(i) =>
           FileAt(i, r)' = IF i = id /\ r = s THEN f ELSE FileAt(i, r)
<1>1. SUFFICES ASSUME NEW i \in VfsIds, NEW r \in Slots, Registered(i)
               PROVE  FileAt(i, r)' = IF i = id /\ r = s THEN f ELSE FileAt(i, r)
  OBVIOUS
<1>2. CtxOf(i) \in Kinds /\ mem[CtxOf(i)] # NULL /\ CtxOf(i)' = CtxOf(i)
  BY <1>1, RegisteredFacts DEF CtxOf, Fixed
<1>3. CtxOf(i) = CtxOf(id) <=> i = id
  BY <1>1 DEF RegistryInv
<1>4. FileAt(i, r)' = mem'[CtxOf(i)].files[r]
  BY <1>2 DEF FileAt
<1>5. mem'[CtxOf(i)].files[r] = IF CtxOf(i) = CtxOf(id) /\ r = s THEN f ELSE mem[CtxOf(i)].files[r]
  BY <1>2 DEF FilePut
<1> QED BY <1>3, <1>4, <1>5 DEF FileAt

\* The other calls, when the table keeps their descriptors and no lock changes hands.
LEMMA OthersOk ==
  ASSUME Good, NEW t \in Tasks, Fixed, OthersKeep(t), SameLocks, CallOk(t)',
         \A u \in Tasks : u # t => \A fd \in held[u] :
           fd \in held'[u] /\ s_fd_table'[fd] = s_fd_table[fd]
  PROVE  CallInv'
<1>1. ASSUME NEW u \in Tasks, u # t PROVE CallOk(u)'
  <2>1. CallOk(u) /\ call'[u] = call[u]
    BY <1>1 DEF Good, Sound, CallInv, OthersKeep
  <2>2. call[u].pc \in OnFd =>
          call[u].fd \in held'[u] /\ s_fd_table'[call[u].fd] = s_fd_table[call[u].fd]
    BY <1>1, <2>1 DEF CallOk
  <2>3. call[u].pc \in {"io", "restore"} => mem'["fat"].lock = u
    BY LockOf DEF Good, SameLocks, Kinds
  <2> QED BY <2>1, <2>2, <2>3, CallKept
<1> QED BY <1>1 DEF CallInv

\* The lock stays where it is when a call that has it goes on.
LEMMA LockStays ==
  ASSUME Good, NEW t \in Tasks, OthersKeep(t), SameContexts, SameLocks,
         call[t].pc \notin {"io", "restore"}
  PROVE  LockInv'
<1>1. \A u \in Tasks : call[u].pc \in {"io", "restore"} => call'[u].pc \in {"io", "restore"}
  BY DEF OthersKeep
<1> QED BY <1>1, LockKept DEF Good

\* Open: the driver has put file f in slot s of file system id.
Opens(t, id, s, f) ==
  /\ Fixed /\ SameTable /\ OthersKeep(t) /\ CallTypeNext
  /\ MemTypeNext /\ SameContexts /\ SameLocks
  /\ id \in VfsIds /\ Registered(id) /\ s \in Slots
  /\ f \in FilesOf(CtxOf(id)) /\ f # NULL
  /\ FileAt(id, s) = NULL /\ FilePut(CtxOf(id), s, f)
  /\ call[t].pc = "idle"
  /\ call'[t].pc = "bind" /\ call'[t].vfs = id /\ call'[t].local_fd = s

\* The entries that match a path have proper prefixes.
LEMMA MatchFacts ==
  ASSUME Good, NEW path
  PROVE  \A i \in Matches(s_vfs, path) :
           /\ s_vfs[i].path_prefix \in Seq(Alphabet) /\ Len(s_vfs[i].path_prefix) \in Nat
           /\ Len(s_vfs[i].path_prefix) <= Len(path)
<1>1. SUFFICES ASSUME NEW i \in Matches(s_vfs, path)
               PROVE  /\ s_vfs[i].path_prefix \in Seq(Alphabet) /\ Len(s_vfs[i].path_prefix) \in Nat
                      /\ Len(s_vfs[i].path_prefix) <= Len(path)
  OBVIOUS
<1>2. i \in VfsIds /\ s_vfs[i] # NULL /\ IsPrefix(s_vfs[i].path_prefix, path)
  BY <1>1 DEF Matches
<1>3. s_vfs[i] \in Registrations
  BY <1>2 DEF Good, TypeOK
<1>4. s_vfs[i].path_prefix \in {FatPath, SpiffsPath}
  BY <1>3 DEF Registrations
<1>5. s_vfs[i].path_prefix \in Seq(Alphabet)
  BY <1>4, MountsAssumption DEF Alphabet
<1> QED BY <1>2, <1>5, LenProperties DEF IsPrefix

LEMMA OpenIs ==
  ASSUME Good, NEW t \in Tasks, NEW lib \in Kinds, NEW n \in Names, Open(t, lib, n)
  PROVE  \E id, s, f : Opens(t, id, s, f)
<1> DEFINE path == Append(mountpoint[lib], n)
           id == get_vfs_for_path(s_vfs, path)
           c == s_vfs[id].ctx
           s == get_next_fd(c)
           q == s_vfs[id].path_prefix
           f == FileOf(c, SubSeq(path, Len(q) + 1, Len(path)))
           y == [pc |-> "bind", fd |-> NULL, vfs |-> id, local_fd |-> s]
<1>1. /\ call[t] = Idle /\ mountpoint[lib] # NULL /\ id # NULL
      /\ mem[c] # NULL /\ s # NULL
      /\ mem' = [mem EXCEPT ![c].files[s] = f]
      /\ call' = [call EXCEPT ![t] = y]
      /\ UNCHANGED mountsButMem /\ UNCHANGED held
  BY DEF Open, translate_path
<1>2. mountpoint[lib] = PathOf(lib)
  BY <1>1 DEF Good, Sound, RegistryInv
<1>3. path \in Paths /\ path \in Seq(Alphabet) /\ Len(path) \in Nat
  BY <1>2, PathFacts, LenProperties
<1> HIDE DEF path
<1>4. \A i \in Matches(s_vfs, path) :
        /\ s_vfs[i].path_prefix \in Seq(Alphabet) /\ Len(s_vfs[i].path_prefix) \in Nat
        /\ Len(s_vfs[i].path_prefix) <= Len(path)
  BY MatchFacts
<1>5. id \in Matches(s_vfs, path)
  BY <1>1, <1>3, <1>4, Resolves, Resolved
<1>6. id \in VfsIds /\ Registered(id) /\ IsPrefix(q, path) /\ q \in Seq(Alphabet)
  BY <1>4, <1>5 DEF Matches, Registered
<1> HIDE DEF id
<1>7. c \in Kinds /\ c = CtxOf(id)
  BY <1>6, RegisteredFacts DEF Good, Sound, CtxOf
<1>8. f \in FilesOf(c) /\ f \in AllFiles /\ f # NULL
  <2>1. f \in FilesOf(c)
    BY <1>3, <1>6, <1>7, RestIsFile
  <2> HIDE DEF f
  <2>2. f \in AllFiles
    BY <1>7, <2>1 DEF Kinds, AllFiles
  <2> QED BY <2>1, <2>2, FilesAssumption
<1> HIDE DEF f, c
<1>9. s \in Slots /\ mem[c].files[s] = NULL
  BY <1>1, NextSlot
<1> HIDE DEF s
<1>10. y \in Calls /\ y.pc = "bind" /\ y.vfs = id /\ y.local_fd = s
  BY <1>6, <1>9 DEF Calls, PCs
<1> HIDE DEF y
<1>11. CallTypeNext /\ call'[t] = y /\ OthersKeep(t) /\ call[t].pc = "idle"
  BY <1>1, <1>10, CallSet, TypeFacts, IdleIs DEF Good
<1>12. MemTypeNext /\ SameContexts /\ SameLocks /\ FilePut(c, s, f)
  BY <1>1, <1>7, <1>8, <1>9, SetsFile, TypeFacts DEF Good
<1>13. Fixed /\ SameTable
  BY <1>1, FixedButMem
<1>14. Opens(t, id, s, f)
  BY <1>6, <1>7, <1>8, <1>9, <1>10, <1>11, <1>12, <1>13 DEF Opens, FileAt
<1> QED BY <1>14

LEMMA OpenViews ==
  ASSUME Good, NEW t \in Tasks, NEW id, NEW s, NEW f, Opens(t, id, s, f)
  PROVE  /\ \A fd \in Fds : Live(fd)' <=> Live(fd)
         /\ \A u \in Tasks, i \in VfsIds, r \in Slots :
              Takes(u, i, r)' <=> Takes(u, i, r) \/ (u = t /\ i = id /\ r = s)
         /\ \A i \in VfsIds, r \in Slots : Registered(i) =>
              FileAt(i, r)' = IF i = id /\ r = s THEN f ELSE FileAt(i, r)
<1>1. \A u \in Tasks : call'[u].pc = "clear" \/ call[u].pc = "clear" => call'[u] = call[u]
  BY DEF Opens, OthersKeep
<1>2. \A fd \in Fds : Live(fd)' <=> Live(fd)
  BY <1>1 DEF Live, Opens, SameTable
<1>3. \A u \in Tasks, i \in VfsIds, r \in Slots :
        Takes(u, i, r)' <=> Takes(u, i, r) \/ (u = t /\ i = id /\ r = s)
  BY DEF Takes, Opens, OthersKeep
<1>4. \A i \in VfsIds, r \in Slots : Registered(i) =>
        FileAt(i, r)' = IF i = id /\ r = s THEN f ELSE FileAt(i, r)
  BY PutView DEF Opens, Good, Sound
<1> QED BY <1>2, <1>3, <1>4

LEMMA OpenGood ==
  ASSUME Good, NEW t \in Tasks, NEW id, NEW s, NEW f, Opens(t, id, s, f)
  PROVE  Good'
<1>1. TypeOK' /\ HeldInv' /\ RegistryInv' /\ LockInv'
  <2>1. TypeOK'
    BY TypeKept DEF Opens, Good
  <2>2. HeldInv'
    BY DEF Opens, SameTable, HeldInv, Good
  <2>3. RegistryInv'
    BY RegistryKept DEF Opens, Good, Sound
  <2>4. LockInv'
    BY LockStays DEF Opens
  <2> QED BY <2>1, <2>2, <2>3, <2>4
<1>2. VolumeInv'
  <2>1. CtxOf(id) \in Kinds
    BY RegisteredFacts DEF Opens, Good, Sound
  <2> QED BY <2>1, VolumeKept DEF Opens, Good, Sound
<1>3. SlotInv'
  BY DEF Opens, SameTable, Fixed, Good, Sound, SlotInv, Registered
<1>4. CallInv'
  <2>1. CallOk(t)'
    BY DEF Opens, CallOk, OnFd, Fixed, Registered
  <2> QED BY <2>1, OthersOk DEF Opens, SameTable
<1>5. RefInv'
  <2>1. \A fd \in Fds, i \in VfsIds, r \in Slots : Stands(fd, i, r)' <=> Stands(fd, i, r)
    BY OpenViews DEF Stands, Opens, SameTable
  <2>2. \A i \in VfsIds : Registered(i)' <=> Registered(i)
    BY DEF Opens, Fixed, Registered
  <2>3. /\ Registered(id) /\ id \in VfsIds /\ s \in Slots /\ f # NULL
        /\ \A fd \in Fds : ~ Stands(fd, id, s)
        /\ \A u \in Tasks : ~ Takes(u, id, s)
    BY DEF Opens, Good, Sound, RefInv
  <2> HIDE DEF Stands, Takes, FileAt, Registered
  <2> QED BY <2>1, <2>2, <2>3, OpenViews DEF RefInv, Good, Sound
<1> QED BY <1>1, <1>2, <1>3, <1>4, <1>5 DEF Good, Sound
\* A descriptor that is not in use is held by nobody and is in no call.
LEMMA FreeFd ==
  ASSUME Good, NEW fd \in Fds, s_fd_table[fd].vfs_index = -1
  PROVE  /\ \A u \in Tasks : fd \notin held[u]
         /\ \A u \in Tasks : call[u].pc \in OnFd => call[u].fd # fd
<1>1. ASSUME NEW u \in Tasks, fd \in held[u] PROVE FALSE
  <2>1. s_fd_table[fd].vfs_index \in VfsIds
    BY <1>1 DEF Good, Sound, SlotInv
  <2> QED BY <2>1, VfsAssumption DEF VfsIds
<1>2. \A u \in Tasks : call[u].pc \in OnFd => call[u].fd \in held[u]
  BY DEF Good, Sound, CallInv, CallOk
<1> QED BY <1>1, <1>2

\* Bind: descriptor fd stands for the slot that open() took.
Binds(t, fd) ==
  /\ Fixed /\ OthersKeep(t) /\ CallTypeNext /\ mem' = mem
  /\ call[t].pc = "bind" /\ call'[t] = Idle /\ call'[t].pc = "idle"
  /\ fd \in Fds /\ s_fd_table[fd].vfs_index = -1
  /\ s_fd_table'[fd] = [vfs_index |-> call[t].vfs, local_fd |-> call[t].local_fd]
  /\ \A g \in Fds : g # fd => s_fd_table'[g] = s_fd_table[g]
  /\ \A u \in Tasks : held'[u] = IF u = t THEN held[u] \cup {fd} ELSE held[u]
  /\ TableTypeNext

LEMMA BindIs ==
  ASSUME Good, NEW t \in Tasks, Bind(t)
  PROVE  Binds(t, next_fd(s_fd_table))
<1> DEFINE fd == next_fd(s_fd_table)
           e == [vfs_index |-> call[t].vfs, local_fd |-> call[t].local_fd]
<1>1. /\ call[t].pc = "bind" /\ fd # NULL /\ Return(t)
      /\ s_fd_table' = [s_fd_table EXCEPT ![fd] = e]
      /\ held' = [held EXCEPT ![t] = @ \cup {fd}]
      /\ UNCHANGED <<s_vfs, mem, fatVars, efs, mountpoint, noMem, undefined>>
  BY DEF Bind
<1>2. fd \in Fds /\ s_fd_table[fd].vfs_index = -1
  BY <1>1, NextFd
<1> HIDE DEF fd
<1>3. e \in [vfs_index : VfsIds, local_fd : Slots]
  BY <1>1, AtBind DEF Good, Slot
<1> HIDE DEF e
<1>4. CallTypeNext /\ OthersKeep(t) /\ call'[t] = Idle /\ call'[t].pc = "idle"
  BY <1>1, Returns, TypeFacts DEF Good
<1>5. Fixed /\ mem' = mem
  BY <1>1 DEF Fixed, fatVars
<1>6. TableTypeNext
  BY <1>1, <1>2, <1>3 DEF Good, TypeOK, TableTypeNext
<1>7. s_fd_table'[fd] = e /\ \A g \in Fds : g # fd => s_fd_table'[g] = s_fd_table[g]
  BY <1>1, <1>2 DEF Good, TypeOK
<1>8. \A u \in Tasks : held'[u] = IF u = t THEN held[u] \cup {fd} ELSE held[u]
  BY <1>1 DEF Good, TypeOK
<1> QED BY <1>1, <1>2, <1>4, <1>5, <1>6, <1>7, <1>8 DEF Binds, fd, e

LEMMA BindViews ==
  ASSUME Good, NEW t \in Tasks, NEW fd, Binds(t, fd)
  PROVE  /\ ~ Live(fd) /\ \A g \in Fds : Live(g)' <=> (Live(g) \/ g = fd)
         /\ \A u \in Tasks, i \in VfsIds, r \in Slots :
              Takes(u, i, r)' <=> Takes(u, i, r) /\ u # t
         /\ \A i \in VfsIds, r \in Slots : FileAt(i, r)' = FileAt(i, r)
<1>1. /\ \A u \in Tasks : fd \notin held[u]
      /\ \A u \in Tasks : call[u].pc = "clear" => call[u].fd # fd
  BY FreeFd DEF Binds, OnFd
<1>2. ~ Live(fd)
  BY <1>1 DEF Live
<1>3. \A u \in Tasks : call'[u].pc = "clear" \/ call[u].pc = "clear" => call'[u] = call[u]
  BY DEF Binds, OthersKeep
<1>4. Live(fd)'
  BY <1>1, <1>3 DEF Live, Binds
<1>5. \A g \in Fds : g # fd => (Live(g)' <=> Live(g))
  BY <1>3 DEF Live, Binds
<1>6. \A u \in Tasks, i \in VfsIds, r \in Slots : Takes(u, i, r)' <=> Takes(u, i, r) /\ u # t
  BY DEF Takes, Binds, OthersKeep
<1>7. \A i \in VfsIds, r \in Slots : FileAt(i, r)' = FileAt(i, r)
  BY DEF FileAt, CtxOf, Binds, Fixed
<1> QED BY <1>2, <1>4, <1>5, <1>6, <1>7

LEMMA BindGood ==
  ASSUME Good, NEW t \in Tasks, NEW fd, Binds(t, fd)
  PROVE  Good'
<1>1. MemTypeNext /\ SameContexts /\ SameFiles /\ SameLocks
  BY SameMem DEF Binds, Good
<1>2. TypeOK' /\ RegistryInv' /\ LockInv' /\ VolumeInv'
  <2>1. TypeOK'
    BY <1>1, TypeKept DEF Binds, Good
  <2>2. RegistryInv' /\ VolumeInv'
    BY <1>1, RegistryKept, VolumeKept DEF Binds, Good, Sound
  <2>3. LockInv'
    BY <1>1, LockStays DEF Binds
  <2> QED BY <2>1, <2>2, <2>3
<1>3. \A u \in Tasks : fd \notin held[u]
  BY FreeFd DEF Binds
<1>4. \A u \in Tasks, g \in Fds : g # fd => (g \in held'[u] <=> g \in held[u])
  BY DEF Binds
<1>5. \A u \in Tasks : fd \in held'[u] <=> u = t
  BY <1>3 DEF Binds
<1>6. HeldInv'
  <2>1. \A u, w \in Tasks : \A g \in Fds : g \in held'[u] /\ g \in held'[w] => u = w
    BY <1>4, <1>5 DEF Good, HeldInv
  <2>2. \A g \in Fds : g < VfsMax /\ s_fd_table'[g] # FD_TABLE_ENTRY_UNUSED =>
          \E u \in Tasks : g \in held'[u]
    BY <1>4, <1>5 DEF Good, HeldInv, Binds
  <2> QED BY <2>1, <2>2 DEF HeldInv, FD_TABLE_ENTRY_UNUSED
<1>7. /\ call[t].vfs \in VfsIds /\ Registered(call[t].vfs) /\ call[t].local_fd \in Slots
      /\ Takes(t, call[t].vfs, call[t].local_fd)
  BY AtBind DEF Binds, Good, Slot
<1>8. SlotInv'
  <2>1. SUFFICES ASSUME NEW u \in Tasks, NEW g \in held'[u]
                 PROVE  /\ s_fd_table'[g] \in [vfs_index : VfsIds, local_fd : Slots]
                        /\ s_vfs'[s_fd_table'[g].vfs_index] # NULL
    BY DEF SlotInv, Registered
  <2>2. CASE g = fd
    BY <1>7, <2>2 DEF Binds, Fixed, Registered
  <2>3. CASE g # fd
    BY <2>1, <2>3, <1>4 DEF Binds, Fixed, Good, Sound, SlotInv, Registered, TypeOK, TableTypeNext
  <2> QED BY <2>2, <2>3
<1>9. CallInv'
  <2>1. CallOk(t)'
    BY IdleOk DEF Binds
  <2>2. \A u \in Tasks : u # t => \A g \in held[u] : g \in held'[u] /\ s_fd_table'[g] = s_fd_table[g]
    BY <1>3 DEF Binds, Good, TypeOK
  <2> QED BY <1>1, <2>1, <2>2, OthersOk DEF Binds
<1>10. RefInv'
  <2>1. \A g \in Fds, i \in VfsIds, r \in Slots :
          Stands(g, i, r)' <=> Stands(g, i, r) \/ (g = fd /\ i = call[t].vfs /\ r = call[t].local_fd)
    <3>1. /\ \A g \in Fds : g # fd => s_fd_table'[g] = s_fd_table[g]
          /\ s_fd_table'[fd].vfs_index = call[t].vfs /\ s_fd_table'[fd].local_fd = call[t].local_fd
      BY DEF Binds
    <3>2. ~ Live(fd) /\ \A g \in Fds : Live(g)' <=> (Live(g) \/ g = fd)
      BY BindViews
    <3> QED BY <3>1, <3>2 DEF Stands
  <2>2. \A i \in VfsIds : Registered(i)' <=> Registered(i)
    BY DEF Binds, Fixed, Registered
  <2>3. \A i \in VfsIds, r \in Slots : Takes(t, i, r) <=> (i = call[t].vfs /\ r = call[t].local_fd)
    BY DEF Takes, Binds
  <2>4. \A i \in VfsIds, r \in Slots : ~ Stands(fd, i, r)
    BY BindViews DEF Stands
  <2>5. fd \in Fds
    BY DEF Binds
  <2> QED BY <1>7, <2>1, <2>2, <2>3, <2>4, <2>5, BindViews DEF RefInv, Good, Sound
<1> QED BY <1>2, <1>6, <1>8, <1>9, <1>10 DEF Good, Sound
\* Undo and DriverClose: the driver gives back slot s of file system id.
Frees(t, id, s) ==
  /\ Fixed /\ SameTable /\ OthersKeep(t) /\ CallTypeNext
  /\ MemTypeNext /\ SameContexts /\ SameLocks
  /\ id \in VfsIds /\ Registered(id) /\ s \in Slots
  /\ id = call[t].vfs /\ s = Slot(t)
  /\ FilePut(CtxOf(id), s, NULL)

LEMMA FreesMem ==
  ASSUME Good, NEW t \in Tasks, call[t].pc \in {"bind", "driver"},
         mem' = [mem EXCEPT ![Ctx(t)].files[Slot(t)] = NULL]
  PROVE  /\ call[t].vfs \in VfsIds /\ Registered(call[t].vfs) /\ Slot(t) \in Slots
         /\ MemTypeNext /\ SameContexts /\ SameLocks /\ FilePut(CtxOf(call[t].vfs), Slot(t), NULL)
<1>1. /\ call[t].vfs \in VfsIds /\ Registered(call[t].vfs) /\ Slot(t) \in Slots
      /\ Ctx(t) = CtxOf(call[t].vfs) /\ Ctx(t) \in Kinds /\ mem[Ctx(t)] # NULL
  BY AtBind, AtFd DEF Good, OnFd
<1> QED BY <1>1, SetsFile, TypeFacts DEF Good

LEMMA UndoIs ==
  ASSUME Good, NEW t \in Tasks, Undo(t)
  PROVE  /\ Frees(t, call[t].vfs, Slot(t))
         /\ call[t].pc = "bind" /\ call'[t] = Idle /\ call'[t].pc = "idle"
<1>1. /\ call[t].pc = "bind" /\ Return(t)
      /\ mem' = [mem EXCEPT ![Ctx(t)].files[Slot(t)] = NULL]
  BY DEF Undo
<1>2. Fixed /\ SameTable
  BY FixedButMem DEF Undo
<1>3. CallTypeNext /\ OthersKeep(t) /\ call'[t] = Idle /\ call'[t].pc = "idle"
  BY <1>1, Returns, TypeFacts DEF Good
<1> QED BY <1>1, <1>2, <1>3, FreesMem DEF Frees

LEMMA DriverCloseIs ==
  ASSUME Good, NEW t \in Tasks, DriverClose(t)
  PROVE  /\ Frees(t, call[t].vfs, Slot(t))
         /\ call[t].pc = "driver" /\ call'[t].pc = "clear" /\ call'[t].fd = call[t].fd
         /\ call'[t].vfs = call[t].vfs /\ call'[t].local_fd = call[t].local_fd
<1>1. /\ call[t].pc = "driver" /\ Goto(t, "clear") /\ "clear" \in PCs
      /\ mem' = [mem EXCEPT ![Ctx(t)].files[Slot(t)] = NULL]
  BY DEF DriverClose, PCs
<1>2. Fixed /\ SameTable
  BY FixedButMem DEF DriverClose
<1>3. /\ CallTypeNext /\ OthersKeep(t)
      /\ call'[t].pc = "clear" /\ call'[t].fd = call[t].fd
      /\ call'[t].vfs = call[t].vfs /\ call'[t].local_fd = call[t].local_fd
  BY <1>1, Goes, TypeFacts DEF Good
<1> QED BY <1>1, <1>2, <1>3, FreesMem DEF Frees

LEMMA FreesView ==
  ASSUME Good, NEW t \in Tasks, NEW id, NEW s, Frees(t, id, s)
  PROVE  \A i \in VfsIds, r \in Slots : Registered(i) =>
           FileAt(i, r)' = IF i = id /\ r = s THEN NULL ELSE FileAt(i, r)
BY PutView DEF Frees, Good, Sound

LEMMA FreesKeeps ==
  ASSUME Good, NEW t \in Tasks, NEW id, NEW s, Frees(t, id, s),
         call[t].pc \notin {"io", "restore"}, CallOk(t)', RefInv'
  PROVE  Good'
<1>1. TypeOK'
  BY TypeKept DEF Frees, Good
<1>2. HeldInv' /\ SlotInv'
  BY DEF Frees, SameTable, Fixed, HeldInv, SlotInv, Registered, Good, Sound
<1>3. RegistryInv'
  BY RegistryKept DEF Frees, Good, Sound
<1>4. LockInv'
  BY LockStays DEF Frees
<1>5. VolumeInv'
  <2>1. CtxOf(id) \in Kinds
    BY RegisteredFacts DEF Frees, Good, Sound
  <2> QED BY <2>1, VolumeKept DEF Frees, Good, Sound
<1>6. CallInv'
  BY OthersOk DEF Frees, SameTable
<1> QED BY <1>1, <1>2, <1>3, <1>4, <1>5, <1>6 DEF Good, Sound

LEMMA UndoGood ==
  ASSUME Good, NEW t \in Tasks, Undo(t)
  PROVE  Good' /\ \A fd \in Fds : Live(fd)' <=> Live(fd)
<1> DEFINE id == call[t].vfs
           s == Slot(t)
<1>1. /\ Frees(t, id, s) /\ call[t].pc = "bind" /\ call'[t] = Idle /\ call'[t].pc = "idle"
      /\ Takes(t, id, s) /\ id \in VfsIds /\ s \in Slots /\ Registered(id)
  BY UndoIs, AtBind DEF Good, Undo
<1>2. \A u \in Tasks : call'[u].pc = "clear" \/ call[u].pc = "clear" => call'[u] = call[u]
  BY <1>1 DEF Frees, OthersKeep
<1>3. \A fd \in Fds : Live(fd)' <=> Live(fd)
  BY <1>1, <1>2 DEF Live, Frees, SameTable
<1>4. \A u \in Tasks, i \in VfsIds, r \in Slots : Takes(u, i, r)' <=> Takes(u, i, r) /\ u # t
  BY <1>1 DEF Takes, Frees, OthersKeep
<1>5. \A i \in VfsIds, r \in Slots : Takes(t, i, r) => i = id /\ r = s
  BY DEF Takes, Slot
<1>6. \A fd \in Fds, i \in VfsIds, r \in Slots : Stands(fd, i, r)' <=> Stands(fd, i, r)
  BY <1>1, <1>3 DEF Stands, Frees, SameTable
<1>7. \A i \in VfsIds : Registered(i)' <=> Registered(i)
  BY <1>1 DEF Frees, Fixed, Registered
<1>8. \A i \in VfsIds, r \in Slots : Registered(i) =>
        FileAt(i, r)' = IF i = id /\ r = s THEN NULL ELSE FileAt(i, r)
  BY <1>1, FreesView
<1>9. RefInv'
  <2> HIDE DEF id, s
  <2> QED BY <1>1, <1>4, <1>5, <1>6, <1>7, <1>8 DEF RefInv, Good, Sound
<1>10. CallOk(t)'
  BY <1>1, IdleOk
<1>11. Good'
  BY <1>1, <1>9, <1>10, FreesKeeps
<1> QED BY <1>3, <1>11

LEMMA DriverCloseGood ==
  ASSUME Good, NEW t \in Tasks, DriverClose(t)
  PROVE  /\ Good' /\ Live(call[t].fd) /\ call[t].fd \in Fds
         /\ \A fd \in Fds : Live(fd)' <=> Live(fd) /\ fd # call[t].fd
<1> DEFINE id == call[t].vfs
           s == Slot(t)
           g == call[t].fd
<1>1. /\ Frees(t, id, s) /\ call[t].pc = "driver" /\ call'[t].pc = "clear" /\ call'[t].fd = g
      /\ call'[t].vfs = id /\ call'[t].local_fd = call[t].local_fd
  BY DriverCloseIs
<1>2. /\ g \in Fds /\ g \in held[t] /\ id \in VfsIds /\ Registered(id) /\ s \in Slots
      /\ id = s_fd_table[g].vfs_index /\ s = s_fd_table[g].local_fd
  BY <1>1, AtFd DEF Good, OnFd
<1>3. Live(g)
  BY <1>1, LiveCall DEF Good, OnFd
<1>4. \A u \in Tasks : u # t => call'[u] = call[u]
  BY <1>1 DEF Frees, OthersKeep
<1>5. \A fd \in Fds : Live(fd)' <=> Live(fd) /\ fd # g
  BY <1>1, <1>3, <1>4 DEF Live, Frees, SameTable
<1>6. \A u \in Tasks, i \in VfsIds, r \in Slots : Takes(u, i, r)' <=> Takes(u, i, r)
  BY <1>1, <1>4 DEF Takes
<1>7. \A fd \in Fds, i \in VfsIds, r \in Slots : Stands(fd, i, r)' <=> Stands(fd, i, r) /\ fd # g
  BY <1>1, <1>5 DEF Stands, Frees, SameTable
<1>8. Stands(g, id, s) /\ \A i \in VfsIds, r \in Slots : Stands(g, i, r) => i = id /\ r = s
  BY <1>2, <1>3 DEF Stands
<1>9. \A i \in VfsIds : Registered(i)' <=> Registered(i)
  BY <1>1 DEF Frees, Fixed, Registered
<1>10. \A i \in VfsIds, r \in Slots : Registered(i) =>
        FileAt(i, r)' = IF i = id /\ r = s THEN NULL ELSE FileAt(i, r)
  BY <1>1, FreesView
<1>11. RefInv'
  <2> HIDE DEF id, s, g
  <2> QED BY <1>2, <1>6, <1>7, <1>8, <1>9, <1>10 DEF RefInv, Good, Sound
<1>12. CallOk(t)'
  <2>1. CallOk(t)
    BY DEF Good, Sound, CallInv
  <2> QED BY <1>1, <2>1 DEF CallOk, OnFd, Frees, SameTable
<1>13. Good'
  BY <1>1, <1>11, <1>12, FreesKeeps
<1> QED BY <1>2, <1>3, <1>5, <1>13

LEMMA ClearGood ==
  ASSUME Good, NEW t \in Tasks, Clear(t)
  PROVE  Good' /\ Fixed /\ mem' = mem /\ (\A fd \in Fds : Live(fd)' <=> Live(fd))
<1>0. SUFFICES ASSUME NEW g, g = call[t].fd
               PROVE  Good' /\ Fixed /\ mem' = mem /\ (\A fd \in Fds : Live(fd)' <=> Live(fd))
  OBVIOUS
<1>1. /\ call[t].pc = "clear" /\ Return(t)
      /\ s_fd_table' = [s_fd_table EXCEPT ![g] = FD_TABLE_ENTRY_UNUSED]
      /\ held' = [held EXCEPT ![t] = @ \ {g}]
      /\ UNCHANGED <<s_vfs, mem, fatVars, efs, mountpoint, noMem, undefined>>
  BY <1>0 DEF Clear
<1>2. g \in Fds /\ g \in held[t]
  BY <1>0, <1>1, AtFd DEF Good, OnFd
<1>3. CallTypeNext /\ OthersKeep(t) /\ call'[t] = Idle /\ call'[t].pc = "idle"
  BY <1>1, Returns, TypeFacts DEF Good
<1>4. Fixed /\ mem' = mem
  BY <1>1 DEF Fixed, fatVars
<1>5. TableTypeNext
  BY <1>1, <1>2 DEF Good, TypeOK, TableTypeNext
<1>6. /\ s_fd_table'[g] = FD_TABLE_ENTRY_UNUSED
      /\ \A h \in Fds : h # g => s_fd_table'[h] = s_fd_table[h]
  BY <1>1, <1>2 DEF Good, TypeOK
<1>7. \A u \in Tasks : held'[u] = IF u = t THEN held[u] \ {g} ELSE held[u]
  BY <1>1 DEF Good, TypeOK
<1>8. \A u \in Tasks : u # t => g \notin held[u]
  BY <1>2 DEF Good, HeldInv
<1>9. \A u \in Tasks, h \in Fds : h \in held'[u] <=> h \in held[u] /\ h # g
  BY <1>7, <1>8
<1>10. MemTypeNext /\ SameContexts /\ SameFiles /\ SameLocks
  BY <1>4, SameMem DEF Good
<1>11. TypeOK'
  BY <1>3, <1>4, <1>5, <1>10, TypeKept DEF Good
<1>12. RegistryInv' /\ VolumeInv' /\ LockInv'
  BY <1>1, <1>3, <1>4, <1>10, RegistryKept, VolumeKept, LockStays DEF Good, Sound
<1>13. HeldInv'
  <2>1. \A u, w \in Tasks : \A h \in Fds : h \in held'[u] /\ h \in held'[w] => u = w
    BY <1>9 DEF Good, HeldInv
  <2>2. \A h \in Fds : h < VfsMax /\ s_fd_table'[h] # FD_TABLE_ENTRY_UNUSED =>
          \E u \in Tasks : h \in held'[u]
    BY <1>6, <1>9 DEF Good, HeldInv
  <2> QED BY <2>1, <2>2 DEF HeldInv, FD_TABLE_ENTRY_UNUSED
<1>14. SlotInv'
  <2>1. SUFFICES ASSUME NEW u \in Tasks, NEW h \in held'[u]
                 PROVE  /\ s_fd_table'[h] \in [vfs_index : VfsIds, local_fd : Slots]
                        /\ s_vfs'[s_fd_table'[h].vfs_index] # NULL
    BY DEF SlotInv, Registered
  <2>2. h \in Fds /\ h \in held[u] /\ h # g
    BY <2>1, <1>5, <1>9 DEF TableTypeNext
  <2> QED BY <2>2, <1>4, <1>6 DEF Fixed, Good, Sound, SlotInv, Registered
<1>15. CallInv'
  <2>1. CallOk(t)'
    BY <1>3, IdleOk
  <2>2. \A u \in Tasks : u # t => \A h \in held[u] : h \in held'[u] /\ s_fd_table'[h] = s_fd_table[h]
    BY <1>6, <1>7, <1>8 DEF Good, TypeOK
  <2> QED BY <1>3, <1>4, <1>10, <2>1, <2>2, OthersOk
<1>16. \A u \in Tasks : u # t => call'[u] = call[u]
  BY <1>3 DEF OthersKeep
<1>17. ~ Live(g) /\ ~ Live(g)'
  <2>1. ~ Live(g)
    BY <1>0, <1>1 DEF Live
  <2>2. \A u \in Tasks : g \notin held'[u]
    BY <1>2, <1>9
  <2> QED BY <2>1, <2>2 DEF Live
<1>18. \A h \in Fds : h # g => (Live(h)' <=> Live(h))
  <2>1. SUFFICES ASSUME NEW h \in Fds, h # g PROVE Live(h)' <=> Live(h)
    OBVIOUS
  <2>2. (\E u \in Tasks : h \in held'[u]) <=> (\E u \in Tasks : h \in held[u])
    BY <2>1, <1>9
  <2>3. (\E u \in Tasks : call'[u].pc = "clear" /\ call'[u].fd = h)
          <=> (\E u \in Tasks : call[u].pc = "clear" /\ call[u].fd = h)
    BY <2>1, <1>0, <1>1, <1>3, <1>16
  <2> QED BY <2>2, <2>3 DEF Live
<1>19. RefInv'
  <2>1. \A h \in Fds, i \in VfsIds, r \in Slots : Stands(h, i, r)' <=> Stands(h, i, r)
    BY <1>2, <1>6, <1>17, <1>18 DEF Stands
  <2>2. \A u \in Tasks, i \in VfsIds, r \in Slots : Takes(u, i, r)' <=> Takes(u, i, r)
    BY <1>1, <1>3, <1>16 DEF Takes
  <2>3. \A i \in VfsIds : Registered(i)' <=> Registered(i)
    BY <1>4 DEF Fixed, Registered
  <2>4. \A i \in VfsIds, r \in Slots : FileAt(i, r)' = FileAt(i, r)
    BY <1>4 DEF FileAt, CtxOf, Fixed
  <2> QED BY <2>1, <2>2, <2>3, <2>4 DEF RefInv, Good, Sound
<1>20. Good'
  BY <1>11, <1>12, <1>13, <1>14, <1>15, <1>19 DEF Good, Sound
<1> QED BY <1>4, <1>17, <1>18, <1>20
-------------------------------------------------------------------------------
(* Mounting and unmounting: no call is in progress.                        *)
LEMMA QuietFacts ==
  ASSUME Quiet
  PROVE  /\ \A u \in Tasks : call[u] = Idle /\ call[u].pc = "idle"
         /\ \A fd : Live(fd) <=> \E u \in Tasks : fd \in held[u]
         /\ \A u \in Tasks : \A i, r : ~ Takes(u, i, r)
<1>1. \A u \in Tasks : call[u] = Idle /\ call[u].pc = "idle"
  BY IdleIs DEF Quiet
<1> QED BY <1>1 DEF Live, Takes

LEMMA QuietNext ==
  ASSUME Quiet, call' = call
  PROVE  /\ CallInv'
         /\ \A fd : Live(fd)' <=> \E u \in Tasks : fd \in held'[u]
         /\ \A u \in Tasks : \A i, r : ~ Takes(u, i, r)'
<1>1. \A u \in Tasks : call'[u] = Idle /\ call'[u].pc = "idle"
  BY QuietFacts
<1>2. CallInv'
  BY <1>1, IdleOk DEF CallInv
<1> QED BY <1>1, <1>2 DEF Live, Takes

\* Which context is which.
LEMMA KindFacts ==
  ASSUME RegistryInv
  PROVE  /\ s_fat_ctx = NULL <=> mem["fat"] = NULL
         /\ s_fat_ctx # NULL => s_fat_ctx = "fat"
         /\ efs = NULL <=> mem["spiffs"] = NULL
         /\ efs # NULL => efs = "spiffs"
         /\ "fat" \in Kinds /\ "spiffs" \in Kinds /\ NULL # "fat" /\ NULL # "spiffs"
         /\ PathOf("fat") = FatPath /\ PathOf("spiffs") = SpiffsPath
BY MountsAssumption DEF RegistryInv, Kinds, PathOf

\* The steps that touch neither the registry nor a context.
LEMMA OnlyFlags ==
  ASSUME Good, Quiet, s_vfs' = s_vfs, s_fd_table' = s_fd_table, mem' = mem, call' = call,
         held' = held, TypeOK', RegistryInv'
  PROVE  Good'
<1>1. HeldInv'
  BY DEF HeldInv, Good
<1>2. LockInv'
  BY DEF LockInv, LockReleased, Good
<1>3. SlotInv'
  BY DEF SlotInv, Registered, Good, Sound
<1>4. RefInv'
  BY DEF RefInv, Stands, Takes, FileAt, Live, CtxOf, Registered, Good, Sound
<1>5. VolumeInv'
  BY DEF VolumeInv, Good, Sound
<1> QED BY <1>1, <1>2, <1>3, <1>4, <1>5, QuietNext DEF Good, Sound

LEMMA FatFlagsStep ==
  ASSUME Good, Quiet, UNCHANGED <<call, held>>,
         F_Fat_begin_fails \/ F_Fat_begin_no_memory \/ F_Fat_format
  PROVE  Good' /\ s_vfs' = s_vfs /\ s_fd_table' = s_fd_table /\ mem' = mem
<1>1. /\ s_vfs' = s_vfs /\ s_fd_table' = s_fd_table /\ mem' = mem /\ s_fat_ctx' = s_fat_ctx
      /\ efs' = efs /\ undefined' = undefined
      /\ s_fat_ctx = NULL /\ s_base_path' = NULL
      /\ inited' \in {inited, TRUE} /\ noMem' \in {noMem, TRUE}
  BY DEF F_Fat_begin_fails, F_Fat_begin_no_memory, F_Fat_format
<1>2. \/ mountpoint' = mountpoint /\ noMem' = noMem
      \/ mountpoint' = [mountpoint EXCEPT !["fat"] = FatPath] /\ noMem' = TRUE
  BY DEF F_Fat_begin_fails, F_Fat_begin_no_memory, F_Fat_format
<1>3. mem["fat"] = NULL /\ "fat" \in Kinds /\ "spiffs" \in Kinds
  BY <1>1, KindFacts DEF Good, Sound
<1>4. /\ mountpoint' \in [Kinds -> {FatPath, SpiffsPath, NULL}]
      /\ \A lib \in Kinds : mountpoint'[lib] \in {PathOf(lib), NULL}
      /\ mountpoint'["fat"] # NULL => mem["fat"] # NULL \/ noMem'
      /\ mountpoint'["spiffs"] = mountpoint["spiffs"]
  BY <1>2, <1>3, KindFacts DEF Good, TypeOK, Sound, RegistryInv
<1>5. TypeOK'
  BY <1>1, <1>4 DEF Good, TypeOK
<1>6. RegistryInv'
  BY <1>1, <1>3, <1>4 DEF Good, Sound, RegistryInv, Registered, CtxOf
<1> QED BY <1>1, <1>5, <1>6, OnlyFlags

\* begin() of a library: entry id is registered for a new context of kind k.
Registers(k, id, base) ==
  /\ k \in Kinds /\ id \in VfsIds /\ s_vfs[id] = NULL /\ mem[k] = NULL
  /\ base \in {FatPath, FatCut, SpiffsPath, Garbage}
  /\ s_vfs' = [s_vfs EXCEPT ![id] = [path_prefix |-> PathOf(k), ctx |-> k]]
  /\ mem' = [mem EXCEPT ![k] = NewContext(base)]
  /\ s_fd_table' = s_fd_table /\ held' = held /\ call' = call

LEMMA RegistersEffect ==
  ASSUME Good, NEW k, NEW id, NEW base, Registers(k, id, base)
  PROVE  /\ s_vfs' \in [VfsIds -> Registrations \cup {NULL}] /\ MemTypeNext
         /\ Registered(id)' /\ CtxOf(id)' = k /\ s_vfs'[id].path_prefix = PathOf(k)
         /\ \A i \in VfsIds : i # id => s_vfs'[i] = s_vfs[i]
         /\ mem'[k] = NewContext(base) /\ mem'[k] # NULL
         /\ \A d \in Kinds : d # k => mem'[d] = mem[d]
         /\ \A i \in VfsIds : Registered(i) => i # id /\ CtxOf(i) # k
<1> DEFINE e == [path_prefix |-> PathOf(k), ctx |-> k]
<1>1. e \in Registrations /\ e.path_prefix = PathOf(k) /\ e.ctx = k
  BY PathFacts DEF Registers, Registrations
<1>2. s_vfs' = [s_vfs EXCEPT ![id] = e] /\ id \in VfsIds /\ k \in Kinds
  BY DEF Registers
<1> HIDE DEF e
<1>3. e # NULL
  BY <1>1, FilesAssumption
<1>4. /\ s_vfs' \in [VfsIds -> Registrations \cup {NULL}] /\ s_vfs'[id] = e
      /\ \A i \in VfsIds : i # id => s_vfs'[i] = s_vfs[i]
  BY <1>1, <1>2 DEF Good, TypeOK
<1>5. NewContext(base) \in Contexts /\ NewContext(base) # NULL
  BY CtxNew, FilesAssumption DEF Registers
<1>6. /\ MemTypeNext /\ mem'[k] = NewContext(base)
      /\ \A d \in Kinds : d # k => mem'[d] = mem[d]
  BY <1>5 DEF Registers, Good, TypeOK, MemTypeNext
<1>7. \A i \in VfsIds : Registered(i) => i # id /\ CtxOf(i) # k
  BY DEF Registers, Registered, Good, Sound, RegistryInv
<1> QED BY <1>1, <1>3, <1>4, <1>5, <1>6, <1>7 DEF Registered, CtxOf

LEMMA RegistersKeeps ==
  ASSUME Good, Quiet, NEW k, NEW id, NEW base, Registers(k, id, base)
  PROVE  /\ HeldInv' /\ LockInv' /\ CallInv' /\ SlotInv' /\ RefInv' /\ VolumeInv'
         /\ \A i \in VfsIds : Registered(i)' =>
              mem'[CtxOf(i)'] # NULL /\ s_vfs'[i].path_prefix = PathOf(CtxOf(i)')
         /\ \A i, j \in VfsIds : Registered(i)' /\ Registered(j)' /\ CtxOf(i)' = CtxOf(j)' => i = j
         /\ \A c \in Kinds : mem'[c] # NULL => \E i \in VfsIds : Registered(i)' /\ CtxOf(i)' = c
<1>1. /\ s_fd_table' = s_fd_table /\ held' = held /\ call' = call /\ mem[k] = NULL
      /\ k \in Kinds /\ id \in VfsIds /\ base \in {FatPath, FatCut, SpiffsPath, Garbage}
  BY DEF Registers
<1>2. \A i \in VfsIds : i # id => (Registered(i)' <=> Registered(i)) /\ CtxOf(i)' = CtxOf(i)
  BY RegistersEffect DEF Registered, CtxOf
<1>3. \A i \in VfsIds : Registered(i) => i # id /\ CtxOf(i) \in Kinds /\ CtxOf(i) # k
  BY RegistersEffect, RegisteredFacts DEF Good, Sound
<1>4. mem'[k].lock = NULL /\ \A s \in Slots : mem'[k].files[s] = NULL
  BY <1>1, RegistersEffect, CtxNew
<1>5. \A d \in Kinds : d # k => mem'[d] = mem[d]
  BY RegistersEffect
<1>6. HeldInv'
  BY <1>1 DEF HeldInv, Good
<1>7. LockInv'
  <2>1. mem'["spiffs"] # NULL => mem'["spiffs"].lock = NULL
    BY <1>4, <1>5 DEF Good, LockInv, Kinds
  <2>2. LockReleased'
    BY <1>1, <1>4, <1>5, FilesAssumption DEF Good, LockInv, LockReleased
  <2> QED BY <2>1, <2>2 DEF LockInv
<1>8. SlotInv'
  <2>1. SUFFICES ASSUME NEW u \in Tasks, NEW fd \in held[u]
                 PROVE  /\ s_fd_table[fd] \in [vfs_index : VfsIds, local_fd : Slots]
                        /\ s_vfs'[s_fd_table[fd].vfs_index] # NULL
    BY <1>1 DEF SlotInv, Registered
  <2>2. /\ s_fd_table[fd] \in [vfs_index : VfsIds, local_fd : Slots]
        /\ Registered(s_fd_table[fd].vfs_index)
    BY <2>1 DEF Good, Sound, SlotInv
  <2>3. s_fd_table[fd].vfs_index \in VfsIds
    BY <2>2
  <2> QED BY <2>2, <2>3, <1>3, RegistersEffect DEF Registered
<1>9. RefInv'
  <2>1. \A fd \in Fds : Live(fd)' <=> Live(fd)
    BY <1>1, QuietFacts, QuietNext
  <2>2. \A fd \in Fds, i \in VfsIds, s \in Slots : Stands(fd, i, s)' <=> Stands(fd, i, s)
    BY <1>1, <2>1 DEF Stands
  <2>3. \A fd \in Fds, s \in Slots : ~ Stands(fd, id, s)
    <3>1. SUFFICES ASSUME NEW fd \in Fds, NEW u \in Tasks, fd \in held[u]
                   PROVE  s_fd_table[fd].vfs_index # id
      BY DEF Stands, Live
    <3>2. Registered(s_fd_table[fd].vfs_index) /\ s_fd_table[fd].vfs_index \in VfsIds
      BY <3>1 DEF Good, Sound, SlotInv
    <3> QED BY <3>2, <1>3
  <2>4. \A u \in Tasks, i \in VfsIds, s \in Slots : ~ Takes(u, i, s)' /\ ~ Takes(u, i, s)
    BY <1>1, QuietFacts, QuietNext
  <2>5. \A s \in Slots : FileAt(id, s)' = NULL
    BY <1>4, RegistersEffect DEF FileAt
  <2>6. \A i \in VfsIds, s \in Slots : i # id /\ Registered(i) => FileAt(i, s)' = FileAt(i, s)
    BY <1>2, <1>3, <1>5 DEF FileAt
  <2>7. \A i \in VfsIds : i # id => (Registered(i)' <=> Registered(i))
    BY <1>2
  <2> QED BY <2>2, <2>3, <2>4, <2>5, <2>6, <2>7 DEF RefInv, Good, Sound
<1>10. VolumeInv'
  BY <1>4, <1>5 DEF VolumeInv, Good, Sound
<1>11. \A i \in VfsIds : Registered(i)' =>
         mem'[CtxOf(i)'] # NULL /\ s_vfs'[i].path_prefix = PathOf(CtxOf(i)')
  <2>1. SUFFICES ASSUME NEW i \in VfsIds, Registered(i)'
                 PROVE  mem'[CtxOf(i)'] # NULL /\ s_vfs'[i].path_prefix = PathOf(CtxOf(i)')
    OBVIOUS
  <2>2. CASE i = id
    BY <2>2, RegistersEffect
  <2>3. CASE i # id
    <3>1. Registered(i) /\ CtxOf(i)' = CtxOf(i) /\ s_vfs'[i] = s_vfs[i]
      BY <2>1, <2>3, <1>2, RegistersEffect
    <3> QED BY <3>1, <1>3, <1>5 DEF Good, Sound, RegistryInv
  <2> QED BY <2>2, <2>3
<1>12. \A i, j \in VfsIds : Registered(i)' /\ Registered(j)' /\ CtxOf(i)' = CtxOf(j)' => i = j
  BY <1>2, <1>3, RegistersEffect DEF Good, Sound, RegistryInv
<1>13. \A c \in Kinds : mem'[c] # NULL => \E i \in VfsIds : Registered(i)' /\ CtxOf(i)' = c
  BY <1>1, <1>2, <1>3, <1>5, RegistersEffect DEF Good, Sound, RegistryInv
<1> QED BY <1>1, <1>6, <1>7, <1>8, <1>9, <1>10, <1>11, <1>12, <1>13, QuietNext
LEMMA FatBeginStep ==
  ASSUME Good, Quiet, UNCHANGED <<call, held>>, F_Fat_begin
  PROVE  Good' /\ \E id, base : Registers("fat", id, base)
<1> DEFINE id == esp_vfs_register_common(s_vfs)
<1>1. /\ s_fat_ctx = NULL /\ id # NULL
      /\ s_vfs' = [s_vfs EXCEPT ![id] = [path_prefix |-> FatPath, ctx |-> "fat"]]
      /\ s_fat_ctx' = "fat" /\ s_base_path' = FatPath /\ inited' = TRUE
      /\ mountpoint' = [mountpoint EXCEPT !["fat"] = FatPath]
      /\ s_fd_table' = s_fd_table /\ efs' = efs /\ noMem' = noMem /\ undefined' = undefined
  BY DEF F_Fat_begin, Register
<1>0. PICK base \in {FatPath, FatCut} : mem' = [mem EXCEPT !["fat"] = NewContext(base)]
  BY DEF F_Fat_begin
<1>2. id \in VfsIds /\ s_vfs[id] = NULL
  BY <1>1, NextVfs
<1> HIDE DEF id
<1>3. mem["fat"] = NULL /\ "fat" \in Kinds /\ "spiffs" \in Kinds /\ PathOf("fat") = FatPath
  BY <1>1, KindFacts DEF Good, Sound
<1>4. Registers("fat", id, base)
  BY <1>0, <1>1, <1>2, <1>3 DEF Registers
<1>5. /\ s_vfs' \in [VfsIds -> Registrations \cup {NULL}] /\ MemTypeNext
      /\ mem'["fat"] = NewContext(base) /\ mem'["fat"] # NULL
      /\ mem'["spiffs"] = mem["spiffs"]
  BY <1>3, <1>4, RegistersEffect
<1>6. FatOk(mem'["fat"], s_base_path')
  BY <1>1, <1>5, CtxNew DEF FatOk
<1>7. /\ mountpoint' \in [Kinds -> {FatPath, SpiffsPath, NULL}]
      /\ \A lib \in Kinds : mountpoint'[lib] \in {PathOf(lib), NULL}
      /\ mountpoint'["spiffs"] = mountpoint["spiffs"]
  BY <1>1, <1>3 DEF Good, TypeOK, Sound, RegistryInv
<1>8. TypeOK'
  BY <1>1, <1>3, <1>5, <1>7 DEF Good, TypeOK, MemTypeNext
<1>9. RegistryInv'
  <2>1. /\ s_fat_ctx' = (IF mem'["fat"] = NULL THEN NULL ELSE "fat")
        /\ efs' = (IF mem'["spiffs"] = NULL THEN NULL ELSE "spiffs")
        /\ mem'["fat"] # NULL => FatOk(mem'["fat"], s_base_path')
        /\ mem'["spiffs"] # NULL => mem'["spiffs"].base_path \in {SpiffsPath, Garbage}
        /\ mountpoint'["fat"] # NULL => mem'["fat"] # NULL \/ noMem'
        /\ mountpoint'["spiffs"] # NULL => mem'["spiffs"] # NULL
    BY <1>1, <1>5, <1>6, <1>7 DEF Good, Sound, RegistryInv
  <2> QED BY <1>4, <1>7, <2>1, RegistersKeeps DEF RegistryInv, PathOf
<1> QED BY <1>4, <1>8, <1>9, RegistersKeeps DEF Good, Sound

LEMMA SpiffsBeginStep ==
  ASSUME Good, Quiet, UNCHANGED <<call, held>>, SPIFFS_begin
  PROVE  Good' /\ \E id, base : Registers("spiffs", id, base)
<1> DEFINE id == esp_vfs_register_common(s_vfs)
<1>1. /\ efs = NULL /\ id # NULL
      /\ s_vfs' = [s_vfs EXCEPT ![id] = [path_prefix |-> SpiffsPath, ctx |-> "spiffs"]]
      /\ efs' = "spiffs"
      /\ mountpoint' = [mountpoint EXCEPT !["spiffs"] = SpiffsPath]
      /\ s_fd_table' = s_fd_table /\ noMem' = noMem /\ undefined' = undefined
      /\ s_fat_ctx' = s_fat_ctx /\ s_base_path' = s_base_path /\ inited' = inited
  BY DEF SPIFFS_begin, Register, fatVars
<1>2. PICK base \in {SpiffsPath, Garbage} : mem' = [mem EXCEPT !["spiffs"] = NewContext(base)]
  BY DEF SPIFFS_begin
<1>3. id \in VfsIds /\ s_vfs[id] = NULL
  BY <1>1, NextVfs
<1> HIDE DEF id
<1>4. mem["spiffs"] = NULL /\ "fat" \in Kinds /\ "spiffs" \in Kinds /\ PathOf("spiffs") = SpiffsPath
  BY <1>1, KindFacts DEF Good, Sound
<1>5. Registers("spiffs", id, base)
  BY <1>1, <1>2, <1>3, <1>4 DEF Registers
<1>6. /\ s_vfs' \in [VfsIds -> Registrations \cup {NULL}] /\ MemTypeNext
      /\ mem'["spiffs"] = NewContext(base) /\ mem'["spiffs"] # NULL
      /\ mem'["fat"] = mem["fat"]
  BY <1>4, <1>5, RegistersEffect
<1>7. mem'["spiffs"].base_path = base
  BY <1>6, CtxNew
<1>8. /\ mountpoint' \in [Kinds -> {FatPath, SpiffsPath, NULL}]
      /\ \A lib \in Kinds : mountpoint'[lib] \in {PathOf(lib), NULL}
      /\ mountpoint'["fat"] = mountpoint["fat"]
  BY <1>1, <1>4 DEF Good, TypeOK, Sound, RegistryInv
<1>9. TypeOK'
  BY <1>1, <1>4, <1>6, <1>8 DEF Good, TypeOK, MemTypeNext
<1>10. RegistryInv'
  <2>1. /\ s_fat_ctx' = (IF mem'["fat"] = NULL THEN NULL ELSE "fat")
        /\ efs' = (IF mem'["spiffs"] = NULL THEN NULL ELSE "spiffs")
        /\ mem'["fat"] # NULL => FatOk(mem'["fat"], s_base_path')
        /\ mem'["spiffs"] # NULL => mem'["spiffs"].base_path \in {SpiffsPath, Garbage}
        /\ mountpoint'["fat"] # NULL => mem'["fat"] # NULL \/ noMem'
        /\ mountpoint'["spiffs"] # NULL => mem'["spiffs"] # NULL
    BY <1>1, <1>6, <1>7, <1>8 DEF Good, Sound, RegistryInv
  <2> QED BY <1>5, <1>8, <2>1, RegistersKeeps DEF RegistryInv, PathOf
<1> QED BY <1>5, <1>9, <1>10, RegistersKeeps DEF Good, Sound

LEMMA CtxFormat ==
  ASSUME NEW x \in Contexts
  PROVE  LET y == [x EXCEPT !.mounted = FALSE, !.files = NoFiles]
         IN  /\ y \in Contexts
             /\ y.base_path = x.base_path /\ y.lock = x.lock /\ y.full = x.full
             /\ \A s \in Slots : y.files[s] = NULL
BY DEF Contexts, NoFiles

LEMMA FormatFailsStep ==
  ASSUME Good, Quiet, NoSpiffsFileOpen, UNCHANGED <<call, held>>, SPIFFS_format_fails
  PROVE  /\ Good' /\ Fixed /\ SameTable
         /\ \A d \in Kinds : d # "spiffs" => mem'[d] = mem[d]
<1> DEFINE y == [mem["spiffs"] EXCEPT !.mounted = FALSE, !.files = NoFiles]
<1>1. efs # NULL /\ mem' = [mem EXCEPT ![efs].mounted = FALSE, ![efs].files = NoFiles]
  BY DEF SPIFFS_format_fails, SpiffsMounted
<1>2. efs = "spiffs" /\ mem["spiffs"] # NULL /\ "spiffs" \in Kinds
  BY <1>1, KindFacts DEF Good, Sound
<1>3. Fixed /\ SameTable
  BY DEF SPIFFS_format_fails, fatVars, Fixed, SameTable
<1>4. mem["spiffs"] \in Contexts
  BY <1>2 DEF Good, TypeOK
<1>5. /\ y \in Contexts /\ y.base_path = mem["spiffs"].base_path
      /\ y.lock = mem["spiffs"].lock /\ y.full = mem["spiffs"].full
      /\ \A s \in Slots : y.files[s] = NULL
  BY <1>4, CtxFormat
<1>6. mem' = [mem EXCEPT !["spiffs"] = y]
  BY <1>1, <1>2 DEF Good, TypeOK
<1> HIDE DEF y
<1>7. /\ MemTypeNext /\ mem'["spiffs"] = y /\ y # NULL
      /\ \A d \in Kinds : d # "spiffs" => mem'[d] = mem[d]
  BY <1>2, <1>5, <1>6, FilesAssumption DEF Good, TypeOK, MemTypeNext
<1>8. SameContexts /\ SameLocks
  BY <1>2, <1>5, <1>7 DEF SameContexts, SameLocks
<1>9. TypeOK'
  BY <1>3, <1>7 DEF Good, TypeOK, Fixed, SameTable, MemTypeNext
<1>10. RegistryInv' /\ LockInv'
  BY <1>3, <1>8, RegistryKept, LockKept DEF Good, Sound
<1>11. HeldInv' /\ SlotInv'
  BY <1>3 DEF HeldInv, SlotInv, Registered, Good, Sound, Fixed, SameTable
<1>12. VolumeInv'
  BY <1>5, <1>7 DEF VolumeInv, Good, Sound
<1>13. RefInv'
  <2>1. \A fd \in Fds : Live(fd)' <=> Live(fd)
    BY <1>3, QuietFacts, QuietNext DEF SameTable
  <2>2. \A fd \in Fds, i \in VfsIds, s \in Slots : Stands(fd, i, s)' <=> Stands(fd, i, s)
    BY <1>3, <2>1 DEF Stands, SameTable
  <2>3. \A i \in VfsIds : (Registered(i)' <=> Registered(i)) /\ CtxOf(i)' = CtxOf(i)
    BY <1>3 DEF Registered, CtxOf, Fixed
  <2>4. \A u \in Tasks, i \in VfsIds, s \in Slots : ~ Takes(u, i, s)' /\ ~ Takes(u, i, s)
    BY QuietFacts, QuietNext
  <2>5. \A i \in VfsIds : Registered(i) => CtxOf(i) \in Kinds
    BY RegisteredFacts DEF Good, Sound
  <2>6. \A fd \in Fds, i \in VfsIds, s \in Slots : CtxOf(i) = "spiffs" => ~ Stands(fd, i, s)
    BY <1>2 DEF Stands, Live, NoSpiffsFileOpen, CtxOf
  <2>7. \A i \in VfsIds, s \in Slots : Registered(i) =>
          FileAt(i, s)' = IF CtxOf(i) = "spiffs" THEN NULL ELSE FileAt(i, s)
    BY <1>5, <1>7, <2>3, <2>5 DEF FileAt
  <2> QED BY <2>2, <2>3, <2>4, <2>6, <2>7 DEF RefInv, Good, Sound
<1> QED BY <1>3, <1>7, <1>9, <1>10, <1>11, <1>12, <1>13, QuietNext DEF Good, Sound

\* A registered context is freed: what is left is what does not speak of contexts.
LEMMA FormatFreesStep ==
  ASSUME Good, Quiet, UNCHANGED <<call, held>>, SPIFFS_format_frees
  PROVE  TypeOK' /\ HeldInv' /\ LockInv' /\ undefined'
<1>1. /\ efs # NULL /\ mem' = [mem EXCEPT ![efs] = NULL] /\ efs' = NULL /\ undefined' = TRUE
      /\ s_vfs' = s_vfs /\ s_fd_table' = s_fd_table /\ mountpoint' = mountpoint
      /\ s_fat_ctx' = s_fat_ctx /\ s_base_path' = s_base_path /\ inited' = inited /\ noMem' = noMem
  BY DEF SPIFFS_format_frees, fatVars
<1>2. mem' \in [Kinds -> Contexts \cup {NULL}] /\ \A d \in Kinds : mem'[d] \in {mem[d], NULL}
  BY <1>1 DEF Good, TypeOK
<1>3. TypeOK'
  BY <1>1, <1>2 DEF Good, TypeOK
<1>4. HeldInv'
  BY <1>1 DEF Good, HeldInv
<1>5. LockInv'
  BY <1>2 DEF Good, LockInv, LockReleased, Kinds
<1> QED BY <1>1, <1>3, <1>4, <1>5
\* A NULL path is compared after a path was cut: the same is left.
LEMMA BeginCutStep ==
  ASSUME Good, UNCHANGED <<call, held>>, F_Fat_begin_fails_cut
  PROVE  /\ TypeOK' /\ HeldInv' /\ LockInv' /\ undefined' /\ s_fd_table' = s_fd_table
         /\ \A i \in VfsIds : Registered(i) => s_vfs'[i] = s_vfs[i] /\ mem'[CtxOf(i)] = mem[CtxOf(i)]
<1> DEFINE id == esp_vfs_register_common(s_vfs)
           e == [path_prefix |-> FatPath, ctx |-> "fat"]
           y == [NewContext(FatCut) EXCEPT !.mounted = FALSE]
<1>1. /\ s_fat_ctx = NULL /\ id # NULL
      /\ s_vfs' = [s_vfs EXCEPT ![id] = e] /\ mem' = [mem EXCEPT !["fat"] = y]
      /\ s_fat_ctx' = "fat" /\ s_base_path' = NULL /\ undefined' = TRUE
      /\ s_fd_table' = s_fd_table /\ efs' = efs /\ noMem' = noMem /\ inited' = inited
      /\ mountpoint' = mountpoint
  BY DEF F_Fat_begin_fails_cut, Register
<1>2. id \in VfsIds /\ s_vfs[id] = NULL
  BY <1>1, NextVfs
<1>3. mem["fat"] = NULL /\ "fat" \in Kinds
  BY <1>1, KindFacts DEF Good, Sound
<1>4. e \in Registrations
  BY <1>3 DEF Registrations
<1>5. y \in Contexts /\ y.lock = NULL
  BY DEF Contexts, NewContext, NoFiles
<1> HIDE DEF id, e, y
<1>6. /\ s_vfs' \in [VfsIds -> Registrations \cup {NULL}]
      /\ mem' \in [Kinds -> Contexts \cup {NULL}] /\ mem'["fat"] = y
      /\ \A d \in Kinds : d # "fat" => mem'[d] = mem[d]
      /\ \A i \in VfsIds : i # id => s_vfs'[i] = s_vfs[i]
  BY <1>1, <1>2, <1>3, <1>4, <1>5 DEF Good, TypeOK
<1>7. TypeOK'
  BY <1>1, <1>3, <1>6 DEF Good, TypeOK
<1>8. HeldInv'
  BY <1>1 DEF Good, HeldInv
<1>9. LockInv'
  <2>1. LockReleased'
    BY <1>5, <1>6, FilesAssumption DEF Good, LockInv, LockReleased
  <2>2. mem'["spiffs"] = mem["spiffs"]
    BY <1>6 DEF Kinds
  <2> QED BY <2>1, <2>2 DEF Good, LockInv
<1>10. \A i \in VfsIds : Registered(i) => i # id /\ CtxOf(i) \in Kinds /\ CtxOf(i) # "fat"
  BY <1>2, <1>3, RegisteredFacts DEF Good, Sound, RegistryInv, Registered
<1> QED BY <1>1, <1>6, <1>7, <1>8, <1>9, <1>10

LEMMA CtxForgotten ==
  ASSUME NEW x \in Contexts
  PROVE  LET y == [x EXCEPT !.mounted = FALSE]
         IN  /\ y \in Contexts /\ y.base_path = x.base_path
             /\ y.lock = x.lock /\ y.full = x.full /\ y.files = x.files
BY DEF Contexts

\* end() of FFat whose path was cut: the volume is forgotten, nothing else goes.
LEMMA EndCutStep ==
  ASSUME Good, Quiet, UNCHANGED <<call, held>>, F_Fat_end_cut
  PROVE  /\ IInv' /\ s_vfs' = s_vfs /\ s_fd_table' = s_fd_table
         /\ \A i \in VfsIds : Registered(i) => mem'[CtxOf(i)].files = mem[CtxOf(i)].files
<1> DEFINE y == [mem["fat"] EXCEPT !.mounted = FALSE]
<1>1. /\ s_fat_ctx # NULL /\ s_base_path # mem[s_fat_ctx].base_path
      /\ mem' = [mem EXCEPT ![s_fat_ctx].mounted = FALSE]
      /\ s_base_path' = NULL /\ undefined' = (s_base_path = NULL)
      /\ s_vfs' = s_vfs /\ s_fd_table' = s_fd_table /\ s_fat_ctx' = s_fat_ctx
      /\ inited' = inited /\ efs' = efs /\ mountpoint' = mountpoint /\ noMem' = noMem
      /\ call' = call /\ held' = held
  BY DEF F_Fat_end_cut
<1>2. /\ s_fat_ctx = "fat" /\ mem["fat"] # NULL /\ "fat" \in Kinds /\ "spiffs" \in Kinds
      /\ FatOk(mem["fat"], s_base_path)
  BY <1>1, KindFacts DEF Good, Sound, RegistryInv
<1>3. mem["fat"].base_path = FatCut
  BY <1>1, <1>2 DEF FatOk
<1>4. mem["fat"] \in Contexts
  BY <1>2 DEF Good, TypeOK
<1>5. /\ y \in Contexts /\ y.base_path = FatCut /\ y.lock = mem["fat"].lock
      /\ y.full = mem["fat"].full /\ y.files = mem["fat"].files
  BY <1>3, <1>4, CtxForgotten
<1>6. mem' = [mem EXCEPT !["fat"] = y]
  BY <1>1, <1>2 DEF Good, TypeOK
<1> HIDE DEF y
<1>7. /\ MemTypeNext /\ mem'["fat"] = y /\ y # NULL
      /\ \A d \in Kinds : d # "fat" => mem'[d] = mem[d]
  BY <1>2, <1>5, <1>6, FilesAssumption DEF Good, TypeOK, MemTypeNext
<1>8. /\ \A d \in Kinds : (mem'[d] = NULL <=> mem[d] = NULL)
      /\ \A d \in Kinds : mem[d] # NULL => /\ mem'[d].base_path = mem[d].base_path
                                         /\ mem'[d].lock = mem[d].lock /\ mem'[d].full = mem[d].full
                                         /\ mem'[d].files = mem[d].files
  BY <1>2, <1>3, <1>5, <1>7
<1>9. TypeOK'
  BY <1>1, <1>7 DEF Good, TypeOK, MemTypeNext
<1>10. HeldInv'
  BY <1>1 DEF HeldInv, Good
<1>11. LockInv'
  <2>1. LockReleased'
    BY <1>1, <1>8 DEF Good, LockInv, LockReleased
  <2>2. mem'["spiffs"] = mem["spiffs"]
    BY <1>7 DEF Kinds
  <2> QED BY <2>1, <2>2 DEF Good, LockInv
<1>12. \A i \in VfsIds : (Registered(i)' <=> Registered(i)) /\ CtxOf(i)' = CtxOf(i)
  BY <1>1 DEF Registered, CtxOf
<1>13. \A i \in VfsIds : Registered(i) => CtxOf(i) \in Kinds /\ mem[CtxOf(i)] # NULL
  BY RegisteredFacts DEF Good, Sound, RegistryInv
<1>14. RegistryInv'
  <2>1. \A i \in VfsIds : Registered(i)' =>
          mem'[CtxOf(i)'] # NULL /\ s_vfs'[i].path_prefix = PathOf(CtxOf(i)')
    BY <1>1, <1>8, <1>12, <1>13 DEF Good, Sound, RegistryInv
  <2>2. \A i, j \in VfsIds : Registered(i)' /\ Registered(j)' /\ CtxOf(i)' = CtxOf(j)' => i = j
    BY <1>12 DEF Good, Sound, RegistryInv
  <2>3. \A c \in Kinds : mem'[c] # NULL => \E i \in VfsIds : Registered(i)' /\ CtxOf(i)' = c
    BY <1>8, <1>12 DEF Good, Sound, RegistryInv
  <2>4. FatOk(mem'["fat"], s_base_path')
    BY <1>5, <1>7, MountsAssumption DEF FatOk
  <2>5. /\ s_fat_ctx' = (IF mem'["fat"] = NULL THEN NULL ELSE "fat")
        /\ efs' = (IF mem'["spiffs"] = NULL THEN NULL ELSE "spiffs")
        /\ mem'["spiffs"] # NULL => mem'["spiffs"].base_path \in {SpiffsPath, Garbage}
        /\ \A lib \in Kinds : mountpoint'[lib] \in {PathOf(lib), NULL}
        /\ mountpoint'["fat"] # NULL => mem'["fat"] # NULL \/ noMem'
        /\ mountpoint'["spiffs"] # NULL => mem'["spiffs"] # NULL
    BY <1>1, <1>2, <1>7, <1>8 DEF Good, Sound, RegistryInv
  <2> QED BY <2>1, <2>2, <2>3, <2>4, <2>5 DEF RegistryInv, PathOf
<1>15. SlotInv'
  BY <1>1 DEF SlotInv, Registered, Good, Sound
<1>16. VolumeInv'
  BY <1>8 DEF VolumeInv, Good, Sound
<1>17. \A i \in VfsIds : Registered(i) => mem'[CtxOf(i)].files = mem[CtxOf(i)].files
  BY <1>8, <1>13
<1>18. RefInv'
  <2>1. \A fd \in Fds, i \in VfsIds, s \in Slots : Stands(fd, i, s)' <=> Stands(fd, i, s)
    BY <1>1 DEF Stands, Live
  <2>2. \A u \in Tasks, i \in VfsIds, s \in Slots : Takes(u, i, s)' <=> Takes(u, i, s)
    BY <1>1 DEF Takes
  <2>3. \A i \in VfsIds, s \in Slots : Registered(i) => FileAt(i, s)' = FileAt(i, s)
    BY <1>12, <1>17 DEF FileAt
  <2> QED BY <1>12, <2>1, <2>2, <2>3 DEF RefInv, Good, Sound
<1> QED BY <1>1, <1>9, <1>10, <1>11, <1>14, <1>15, <1>16, <1>17, <1>18, QuietNext DEF IInv, Sound

\* end() of a library: entry id and the context of kind k go.
Unregisters(k, id) ==
  /\ k \in Kinds /\ id \in VfsIds /\ Registered(id) /\ CtxOf(id) = k
  /\ s_vfs' = [s_vfs EXCEPT ![id] = NULL]
  /\ s_fd_table' = forget_references(s_fd_table, id)
  /\ mem' = [mem EXCEPT ![k] = NULL]
  /\ held' = [t \in Tasks |-> {fd \in held[t] : StillOpen(fd)}]
  /\ call' = call

LEMMA UnregistersEffect ==
  ASSUME Good, NEW k, NEW id, Unregisters(k, id)
  PROVE  /\ s_vfs' \in [VfsIds -> Registrations \cup {NULL}] /\ MemTypeNext /\ TableTypeNext
         /\ s_vfs'[id] = NULL /\ \A i \in VfsIds : i # id => s_vfs'[i] = s_vfs[i]
         /\ mem'[k] = NULL /\ \A d \in Kinds : d # k => mem'[d] = mem[d]
         /\ \A u \in Tasks : \A fd : fd \in held'[u] <=> fd \in held[u] /\ s_fd_table[fd].vfs_index # id
         /\ \A fd \in Fds : s_fd_table'[fd] = s_fd_table[fd] \/
                            (s_fd_table'[fd] = FD_TABLE_ENTRY_UNUSED /\ s_fd_table[fd].vfs_index = id)
         /\ \A fd \in Fds : fd < VfsMax /\ s_fd_table[fd].vfs_index = id =>
                            s_fd_table'[fd] = FD_TABLE_ENTRY_UNUSED
<1>1. id \in VfsIds /\ k \in Kinds
  BY DEF Unregisters
<1>2. /\ s_vfs' \in [VfsIds -> Registrations \cup {NULL}]
      /\ s_vfs'[id] = NULL /\ \A i \in VfsIds : i # id => s_vfs'[i] = s_vfs[i]
  BY <1>1 DEF Unregisters, Good, TypeOK
<1>3. MemTypeNext /\ mem'[k] = NULL /\ \A d \in Kinds : d # k => mem'[d] = mem[d]
  BY <1>1 DEF Unregisters, Good, TypeOK, MemTypeNext
<1>4. /\ \A fd \in Fds : s_fd_table'[fd] = s_fd_table[fd] \/
                         (s_fd_table'[fd] = FD_TABLE_ENTRY_UNUSED /\ s_fd_table[fd].vfs_index = id)
      /\ \A fd \in Fds : fd < VfsMax /\ s_fd_table[fd].vfs_index = id =>
                         s_fd_table'[fd] = FD_TABLE_ENTRY_UNUSED
      /\ s_fd_table' \in [Fds -> [vfs_index : VfsIds, local_fd : Slots] \cup {FD_TABLE_ENTRY_UNUSED}]
  BY DEF Unregisters, forget_references, Good, TypeOK
<1>5. \A u \in Tasks : \A fd \in held[u] :
        s_fd_table[fd].vfs_index \in VfsIds /\ s_vfs[s_fd_table[fd].vfs_index] # NULL
  BY DEF Good, Sound, SlotInv, Registered
<1>6. \A u \in Tasks : \A fd : fd \in held'[u] <=> fd \in held[u] /\ s_fd_table[fd].vfs_index # id
  BY <1>2, <1>5 DEF Unregisters, StillOpen
<1>7. held' \in [Tasks -> SUBSET Fds]
  BY DEF Unregisters, Good, TypeOK
<1> QED BY <1>2, <1>3, <1>4, <1>6, <1>7 DEF TableTypeNext

LEMMA UnregistersKeeps ==
  ASSUME Good, Quiet, NEW k, NEW id, Unregisters(k, id)
  PROVE  /\ HeldInv' /\ LockInv' /\ CallInv' /\ SlotInv' /\ RefInv' /\ VolumeInv'
         /\ \A i \in VfsIds : Registered(i)' =>
              mem'[CtxOf(i)'] # NULL /\ s_vfs'[i].path_prefix = PathOf(CtxOf(i)')
         /\ \A i, j \in VfsIds : Registered(i)' /\ Registered(j)' /\ CtxOf(i)' = CtxOf(j)' => i = j
         /\ \A c \in Kinds : mem'[c] # NULL => \E i \in VfsIds : Registered(i)' /\ CtxOf(i)' = c
<1>1. k \in Kinds /\ id \in VfsIds /\ Registered(id) /\ CtxOf(id) = k /\ call' = call
  BY DEF Unregisters
<1>2. ~ Registered(id)' /\ mem'[k] = NULL
  BY UnregistersEffect DEF Registered
<1>3. \A i \in VfsIds : i # id =>
        (Registered(i)' <=> Registered(i)) /\ CtxOf(i)' = CtxOf(i) /\ s_vfs'[i] = s_vfs[i]
  BY UnregistersEffect DEF Registered, CtxOf
<1>4. \A i \in VfsIds : Registered(i) /\ i # id => CtxOf(i) \in Kinds /\ CtxOf(i) # k
  BY <1>1, RegisteredFacts DEF Good, Sound, RegistryInv
<1>5. \A d \in Kinds : d # k => mem'[d] = mem[d]
  BY UnregistersEffect
<1>6. \A u \in Tasks : \A fd : fd \in held'[u] <=> fd \in held[u] /\ s_fd_table[fd].vfs_index # id
  BY UnregistersEffect
<1>7. \A fd \in Fds : s_fd_table[fd].vfs_index # id => s_fd_table'[fd] = s_fd_table[fd]
  BY UnregistersEffect
<1>8. HeldInv'
  <2>1. \A u, w \in Tasks : \A fd \in Fds : fd \in held'[u] /\ fd \in held'[w] => u = w
    BY <1>6 DEF Good, HeldInv
  <2>2. \A fd \in Fds : fd < VfsMax /\ s_fd_table'[fd] # FD_TABLE_ENTRY_UNUSED =>
          \E u \in Tasks : fd \in held'[u]
    <3>1. SUFFICES ASSUME NEW fd \in Fds, fd < VfsMax, s_fd_table'[fd] # FD_TABLE_ENTRY_UNUSED
                   PROVE  \E u \in Tasks : fd \in held'[u]
      OBVIOUS
    <3>2. s_fd_table[fd].vfs_index # id /\ s_fd_table'[fd] = s_fd_table[fd]
      BY <3>1, UnregistersEffect
    <3>3. \E u \in Tasks : fd \in held[u]
      BY <3>1, <3>2 DEF Good, HeldInv
    <3> QED BY <3>2, <3>3, <1>6
  <2> QED BY <2>1, <2>2 DEF HeldInv, FD_TABLE_ENTRY_UNUSED
<1>9. LockInv'
  <2>1. mem'["spiffs"] # NULL => mem'["spiffs"].lock = NULL
    BY <1>2, <1>5 DEF Good, LockInv, Kinds
  <2>2. LockReleased'
    BY <1>1, <1>2, <1>5 DEF Good, LockInv, LockReleased
  <2> QED BY <2>1, <2>2 DEF LockInv
<1>10. SlotInv'
  <2>1. SUFFICES ASSUME NEW u \in Tasks, NEW fd \in held'[u]
                 PROVE  /\ s_fd_table'[fd] \in [vfs_index : VfsIds, local_fd : Slots]
                        /\ s_vfs'[s_fd_table'[fd].vfs_index] # NULL
    BY DEF SlotInv, Registered
  <2>2. fd \in held[u] /\ s_fd_table[fd].vfs_index # id
    BY <1>6, <2>1
  <2>3. /\ s_fd_table[fd] \in [vfs_index : VfsIds, local_fd : Slots]
        /\ s_vfs[s_fd_table[fd].vfs_index] # NULL /\ fd \in Fds
    BY <2>2 DEF Good, Sound, SlotInv, Registered, TypeOK
  <2>4. s_fd_table[fd].vfs_index \in VfsIds /\ s_fd_table'[fd] = s_fd_table[fd]
    BY <2>2, <2>3, <1>7
  <2> QED BY <2>2, <2>3, <2>4, <1>3
<1>11. RefInv'
  <2>1. \A fd \in Fds : Live(fd)' <=> Live(fd) /\ s_fd_table[fd].vfs_index # id
    BY <1>1, <1>6, QuietFacts, QuietNext
  <2>2. \A fd \in Fds, i \in VfsIds, s \in Slots : i # id => (Stands(fd, i, s)' <=> Stands(fd, i, s))
    BY <1>7, <2>1 DEF Stands
  <2>3. \A u \in Tasks, i \in VfsIds, s \in Slots : ~ Takes(u, i, s)' /\ ~ Takes(u, i, s)
    BY <1>1, QuietFacts, QuietNext
  <2>4. \A i \in VfsIds, s \in Slots : i # id /\ Registered(i) => FileAt(i, s)' = FileAt(i, s)
    BY <1>3, <1>4, <1>5 DEF FileAt
  <2>5. \A i \in VfsIds : Registered(i)' => i # id /\ Registered(i)
    BY <1>2, <1>3
  <2> QED BY <2>2, <2>3, <2>4, <2>5 DEF RefInv, Good, Sound
<1>12. VolumeInv'
  BY <1>2, <1>5 DEF VolumeInv, Good, Sound
<1>13. \A i \in VfsIds : Registered(i)' =>
         mem'[CtxOf(i)'] # NULL /\ s_vfs'[i].path_prefix = PathOf(CtxOf(i)')
  BY <1>2, <1>3, <1>4, <1>5 DEF Good, Sound, RegistryInv
<1>14. \A i, j \in VfsIds : Registered(i)' /\ Registered(j)' /\ CtxOf(i)' = CtxOf(j)' => i = j
  BY <1>2, <1>3 DEF Good, Sound, RegistryInv
<1>15. \A c \in Kinds : mem'[c] # NULL => \E i \in VfsIds : Registered(i)' /\ CtxOf(i)' = c
  BY <1>1, <1>2, <1>3, <1>5 DEF Good, Sound, RegistryInv
<1> QED BY <1>1, <1>8, <1>9, <1>10, <1>11, <1>12, <1>13, <1>14, <1>15, QuietNext

LEMMA UnmountStep ==
  ASSUME Good, Unmount
  PROVE  Good' /\ \E k \in Kinds : \E id : Unregisters(k, id)
<1>1. /\ Quiet /\ held' = [t \in Tasks |-> {fd \in held[t] : StillOpen(fd)}] /\ call' = call
      /\ F_Fat_end \/ SPIFFS_end
  BY DEF Unmount
<1>2. CASE F_Fat_end
  <2> DEFINE id == find_by_prefix(s_vfs, FatPath)
  <2>1. s_fat_ctx = "fat" /\ mem["fat"].base_path = FatPath
    BY <1>2, KindFacts, MountsAssumption DEF F_Fat_end, Good, Sound, RegistryInv, FatOk, TypeOK
  <2>2. /\ id # NULL /\ s_vfs' = [s_vfs EXCEPT ![id] = NULL]
        /\ s_fd_table' = forget_references(s_fd_table, id)
        /\ mem' = [mem EXCEPT !["fat"] = NULL] /\ s_fat_ctx' = NULL /\ s_base_path' = NULL
        /\ inited' = FALSE /\ mountpoint' = [mountpoint EXCEPT !["fat"] = NULL]
        /\ efs' = efs /\ noMem' = noMem /\ undefined' = undefined
    BY <1>2, <2>1 DEF F_Fat_end, Unregister
  <2>3. id \in VfsIds /\ Registered(id) /\ s_vfs[id].path_prefix = FatPath
    BY <2>2, FoundByPrefix DEF Registered
  <2> HIDE DEF id
  <2>4. CtxOf(id) = "fat" /\ "fat" \in Kinds /\ "spiffs" \in Kinds
    BY <2>3, RegisteredFacts, MountsAssumption DEF Good, Sound, RegistryInv, PathOf, Kinds
  <2>5. Unregisters("fat", id)
    BY <1>1, <2>2, <2>3, <2>4 DEF Unregisters
  <2>6. /\ s_vfs' \in [VfsIds -> Registrations \cup {NULL}] /\ MemTypeNext /\ TableTypeNext
        /\ mem'["fat"] = NULL /\ mem'["spiffs"] = mem["spiffs"]
    BY <2>4, <2>5, UnregistersEffect
  <2>7. /\ mountpoint' \in [Kinds -> {FatPath, SpiffsPath, NULL}]
        /\ \A lib \in Kinds : mountpoint'[lib] \in {PathOf(lib), NULL}
        /\ mountpoint'["spiffs"] = mountpoint["spiffs"] /\ mountpoint'["fat"] = NULL
    BY <2>2, <2>4 DEF Good, TypeOK, Sound, RegistryInv
  <2>8. TypeOK'
    BY <1>1, <2>2, <2>6, <2>7 DEF Good, TypeOK, MemTypeNext, TableTypeNext
  <2>9. RegistryInv'
    <3>1. /\ s_fat_ctx' = (IF mem'["fat"] = NULL THEN NULL ELSE "fat")
          /\ efs' = (IF mem'["spiffs"] = NULL THEN NULL ELSE "spiffs")
          /\ mem'["fat"] # NULL => FatOk(mem'["fat"], s_base_path')
          /\ mem'["spiffs"] # NULL => mem'["spiffs"].base_path \in {SpiffsPath, Garbage}
          /\ mountpoint'["fat"] # NULL => mem'["fat"] # NULL \/ noMem'
          /\ mountpoint'["spiffs"] # NULL => mem'["spiffs"] # NULL
      BY <2>2, <2>6, <2>7 DEF Good, Sound, RegistryInv
    <3> QED BY <1>1, <2>5, <2>7, <3>1, UnregistersKeeps DEF RegistryInv, PathOf
  <2>10. Good'
    BY <1>1, <2>5, <2>8, <2>9, UnregistersKeeps DEF Good, Sound
  <2> QED BY <2>4, <2>5, <2>10
<1>3. CASE SPIFFS_end
  <2> DEFINE base == mem["spiffs"].base_path
             id == find_by_prefix(s_vfs, base)
  <2>1. efs = "spiffs" /\ base \in {SpiffsPath, Garbage}
    BY <1>3, KindFacts DEF SPIFFS_end, SpiffsMounted, Good, Sound, RegistryInv
  <2>2. /\ id # NULL /\ s_vfs' = [s_vfs EXCEPT ![id] = NULL]
        /\ s_fd_table' = forget_references(s_fd_table, id)
        /\ mem' = [mem EXCEPT !["spiffs"] = NULL] /\ efs' = NULL
        /\ mountpoint' = [mountpoint EXCEPT !["spiffs"] = NULL]
        /\ s_fat_ctx' = s_fat_ctx /\ s_base_path' = s_base_path /\ inited' = inited
        /\ noMem' = noMem /\ undefined' = undefined
    BY <1>3, <2>1 DEF SPIFFS_end, Unregister, fatVars
  <2>3. id \in VfsIds /\ Registered(id) /\ s_vfs[id].path_prefix = base
    BY <2>2, FoundByPrefix DEF Registered
  <2> HIDE DEF id, base
  <2>4. CtxOf(id) = "spiffs" /\ "fat" \in Kinds /\ "spiffs" \in Kinds
    BY <2>1, <2>3, RegisteredFacts, MountsAssumption DEF Good, Sound, RegistryInv, PathOf, Kinds
  <2>5. Unregisters("spiffs", id)
    BY <1>1, <2>2, <2>3, <2>4 DEF Unregisters
  <2>6. /\ s_vfs' \in [VfsIds -> Registrations \cup {NULL}] /\ MemTypeNext /\ TableTypeNext
        /\ mem'["spiffs"] = NULL /\ mem'["fat"] = mem["fat"]
    BY <2>4, <2>5, UnregistersEffect
  <2>7. /\ mountpoint' \in [Kinds -> {FatPath, SpiffsPath, NULL}]
        /\ \A lib \in Kinds : mountpoint'[lib] \in {PathOf(lib), NULL}
        /\ mountpoint'["fat"] = mountpoint["fat"] /\ mountpoint'["spiffs"] = NULL
    BY <2>2, <2>4 DEF Good, TypeOK, Sound, RegistryInv
  <2>8. TypeOK'
    BY <1>1, <2>2, <2>6, <2>7 DEF Good, TypeOK, MemTypeNext, TableTypeNext
  <2>9. RegistryInv'
    <3>1. /\ s_fat_ctx' = (IF mem'["fat"] = NULL THEN NULL ELSE "fat")
          /\ efs' = (IF mem'["spiffs"] = NULL THEN NULL ELSE "spiffs")
          /\ mem'["fat"] # NULL => FatOk(mem'["fat"], s_base_path')
          /\ mem'["spiffs"] # NULL => mem'["spiffs"].base_path \in {SpiffsPath, Garbage}
          /\ mountpoint'["fat"] # NULL => mem'["fat"] # NULL \/ noMem'
          /\ mountpoint'["spiffs"] # NULL => mem'["spiffs"] # NULL
      BY <2>2, <2>6, <2>7 DEF Good, Sound, RegistryInv
    <3> QED BY <1>1, <2>5, <2>7, <3>1, UnregistersKeeps DEF RegistryInv, PathOf
  <2>10. Good'
    BY <1>1, <2>5, <2>8, <2>9, UnregistersKeeps DEF Good, Sound
  <2> QED BY <2>4, <2>5, <2>10
<1> QED BY <1>1, <1>2, <1>3
-------------------------------------------------------------------------------
(* Invariance.                                                             *)
LEMMA InitInv ==
  ASSUME Init
  PROVE  IInv
<1>1. /\ s_vfs = [i \in VfsIds |-> NULL] /\ s_fd_table = [fd \in Fds |-> FD_TABLE_ENTRY_UNUSED]
      /\ mem = [k \in Kinds |-> NULL] /\ s_fat_ctx = NULL /\ s_base_path = NULL /\ inited = FALSE
      /\ efs = NULL /\ mountpoint = [lib \in Kinds |-> NULL]
      /\ noMem = FALSE /\ undefined = FALSE
      /\ call = [t \in Tasks |-> Idle] /\ held = [t \in Tasks |-> {}] /\ last = NULL
  BY DEF Init, MountsInit
<1>2. CallType
  BY <1>1, IdleIs DEF CallType
<1>3. TypeOK
  BY <1>1, <1>2 DEF TypeOK, CallType, Calls, PCs
<1>4. HeldInv
  BY <1>1 DEF HeldInv
<1>5. LockInv
  BY <1>1 DEF LockInv, LockReleased, Kinds
<1>6. RegistryInv
  BY <1>1 DEF RegistryInv, Registered, Kinds
<1>7. CallInv
  BY <1>1, IdleIs DEF CallInv, CallOk, OnFd
<1>8. SlotInv /\ RefInv /\ VolumeInv
  BY <1>1 DEF SlotInv, RefInv, VolumeInv, Registered
<1> QED BY <1>3, <1>4, <1>5, <1>6, <1>7, <1>8 DEF IInv, Sound

LEMMA MountStep ==
  ASSUME Good, Mount
  PROVE  IInv'
<1>1. Quiet /\ UNCHANGED <<call, held>>
  BY DEF Mount
<1>2. CASE F_Fat_begin
  BY <1>1, <1>2, FatBeginStep DEF IInv, Good
<1>3. CASE F_Fat_begin_fails \/ F_Fat_begin_no_memory \/ F_Fat_format
  BY <1>1, <1>3, FatFlagsStep DEF IInv, Good
<1>4. CASE SPIFFS_begin
  BY <1>1, <1>4, SpiffsBeginStep DEF IInv, Good
<1>5. CASE NoSpiffsFileOpen /\ SPIFFS_format_fails
  BY <1>1, <1>5, FormatFailsStep DEF IInv, Good
<1>6. CASE SPIFFS_format_frees
  BY <1>1, <1>6, FormatFreesStep DEF IInv
<1>7. CASE F_Fat_begin_fails_cut
  BY <1>1, <1>7, BeginCutStep DEF IInv
<1>8. CASE F_Fat_end_cut
  BY <1>1, <1>8, EndCutStep
<1> QED BY <1>2, <1>3, <1>4, <1>5, <1>6, <1>7, <1>8 DEF Mount

LEMMA TaskStep ==
  ASSUME Good, NEW t \in Tasks, Start(t) \/ Step(t)
  PROVE  Good'
<1>1. CASE \E lib \in Kinds, n \in Names : Open(t, lib, n)
  BY <1>1, OpenIs, OpenGood
<1>2. CASE \E fd \in held[t] : LookupVfs(t, fd)
  BY <1>2, LookupVfsStep
<1>3. CASE Bind(t)
  BY <1>3, BindIs, BindGood
<1>4. CASE Undo(t)
  BY <1>4, UndoGood
<1>5. CASE LookupLocal(t)
  BY <1>5, LookupLocalStep
<1>6. CASE Write(t)
  BY <1>6, WriteStep
<1>7. CASE DriverClose(t)
  BY <1>7, DriverCloseGood
<1>8. CASE Clear(t)
  BY <1>8, ClearGood
<1>9. CASE Seek(t)
  BY <1>9, SeekStep
<1>10. CASE Unsupported(t)
  BY <1>10, UnsupportedStep
<1>11. CASE Transfer(t)
  BY <1>11, TransferStep
<1>12. CASE DiskFull(t)
  BY <1>12, DiskFullStep
<1>13. CASE Restore(t)
  BY <1>13, RestoreStep
<1> QED BY <1>1, <1>2, <1>3, <1>4, <1>5, <1>6, <1>7, <1>8, <1>9, <1>10, <1>11, <1>12, <1>13
        DEF Start, Step

LEMMA StutterInv ==
  ASSUME IInv, UNCHANGED vars
  PROVE  IInv'
<1>1. /\ s_vfs' = s_vfs /\ s_fd_table' = s_fd_table /\ mem' = mem /\ s_fat_ctx' = s_fat_ctx
      /\ s_base_path' = s_base_path /\ inited' = inited /\ efs' = efs /\ mountpoint' = mountpoint
      /\ noMem' = noMem /\ undefined' = undefined /\ call' = call /\ held' = held
  BY DEF vars, mountVars
<1>2. TypeOK'
  BY <1>1 DEF IInv, TypeOK
<1>3. HeldInv' /\ LockInv'
  BY <1>1 DEF IInv, HeldInv, LockInv, LockReleased
<1>4. RegistryInv => RegistryInv'
  BY <1>1 DEF RegistryInv, Registered, CtxOf
<1>5. CallInv => CallInv'
  BY <1>1 DEF CallInv, CallOk, Registered, CtxOf
<1>6. SlotInv => SlotInv'
  BY <1>1 DEF SlotInv, Registered
<1>7. RefInv => RefInv'
  BY <1>1 DEF RefInv, Stands, Takes, FileAt, Live, CtxOf, Registered
<1>8. VolumeInv => VolumeInv'
  BY <1>1 DEF VolumeInv
<1> QED BY <1>1, <1>2, <1>3, <1>4, <1>5, <1>6, <1>7, <1>8 DEF IInv, Sound

\* The inductive invariant.
THEOREM Invariance == Spec => []IInv
<1>1. Init => IInv
  BY InitInv
<1>2. IInv /\ [Next]_vars => IInv'
  <2>1. SUFFICES ASSUME IInv, [Next]_vars PROVE IInv'
    OBVIOUS
  <2>2. CASE UNCHANGED vars
    BY <2>1, <2>2, StutterInv
  <2>3. CASE Next
    <3>1. Good
      BY <2>1, <2>3 DEF Next, IInv, Good
    <3>2. CASE Mount
      BY <3>1, <3>2, MountStep
    <3>3. CASE Unmount
      BY <3>1, <3>3, UnmountStep DEF IInv, Good
    <3>4. CASE \E t \in Tasks : Start(t) \/ Step(t)
      BY <3>1, <3>4, TaskStep DEF IInv, Good
    <3> QED BY <2>3, <3>2, <3>3, <3>4 DEF Next
  <2> QED BY <2>1, <2>2, <2>3
<1> QED BY <1>1, <1>2, PTL DEF Spec

\* Whatever fails in a pread or a pwrite, its task holds the lock of the FAT context
\* only during the call, unless the disk was full (vfs_fat_pread, vfs_fat_pwrite).
THEOREM LockIsReleased == Spec => []LockReleased
<1>1. IInv => LockReleased
  BY DEF IInv, LockInv
<1> QED BY <1>1, Invariance, PTL

-------------------------------------------------------------------------------
(* The slots and the table.                                                *)
LEMMA ReferencesAre ==
  ASSUME Good, NEW id \in VfsIds, Registered(id), NEW s \in Slots
  PROVE  References(id, s) = {fd \in Fds : Stands(fd, id, s)} \cup {t \in Tasks : Takes(t, id, s)}
<1> DEFINE all == UNION {held[t] : t \in Tasks}
           e == [vfs_index |-> id, local_fd |-> s]
<1>1. \A fd : fd \in all <=> \E t \in Tasks : fd \in held[t]
  OBVIOUS
<1>2. all \subseteq Fds
  BY DEF Good, TypeOK
<1>3. \A fd \in all : s_fd_table[fd] = e <=>
                        s_fd_table[fd].vfs_index = id /\ s_fd_table[fd].local_fd = s
  <2>1. SUFFICES ASSUME NEW fd \in all
                 PROVE  s_fd_table[fd] = e <=>
                          s_fd_table[fd].vfs_index = id /\ s_fd_table[fd].local_fd = s
    OBVIOUS
  <2>2. s_fd_table[fd] \in [vfs_index : VfsIds, local_fd : Slots]
    BY <1>1, <2>1 DEF Good, Sound, SlotInv
  <2> QED BY <2>2
<1> HIDE DEF all, e
<1>4. \A fd : fd \in all /\ s_fd_table[fd] = e /\ (~ \E t \in Tasks : call[t].pc = "clear" /\ call[t].fd = fd)
              <=> fd \in Fds /\ Stands(fd, id, s)
  BY <1>1, <1>2, <1>3 DEF Stands, Live
<1>5. {fd \in all : /\ s_fd_table[fd] = e
                    /\ ~ \E t \in Tasks : call[t].pc = "clear" /\ call[t].fd = fd}
        = {fd \in Fds : Stands(fd, id, s)}
  BY <1>4
<1>6. {t \in Tasks : call[t].pc = "bind" /\ call[t].vfs = id /\ call[t].local_fd = s}
        = {t \in Tasks : Takes(t, id, s)}
  BY DEF Takes
<1> QED BY <1>5, <1>6 DEF References, all, e

LEMMA OneReference ==
  ASSUME Good, NEW id \in VfsIds, Registered(id), NEW s \in Slots
  PROVE  Cardinality(References(id, s)) = IF mem[s_vfs[id].ctx].files[s] = NULL THEN 0 ELSE 1
<1>1. FileAt(id, s) = mem[s_vfs[id].ctx].files[s]
  BY DEF FileAt, CtxOf
<1>2. /\ \A fd \in Fds : Stands(fd, id, s) => FileAt(id, s) # NULL
      /\ \A t \in Tasks : Takes(t, id, s) => FileAt(id, s) # NULL
      /\ \A f, g \in Fds : Stands(f, id, s) /\ Stands(g, id, s) => f = g
      /\ \A t, u \in Tasks : Takes(t, id, s) /\ Takes(u, id, s) => t = u
      /\ \A f \in Fds, t \in Tasks : ~ (Stands(f, id, s) /\ Takes(t, id, s))
      /\ FileAt(id, s) # NULL => (\E fd \in Fds : Stands(fd, id, s)) \/ \E t \in Tasks : Takes(t, id, s)
  BY DEF Good, Sound, RefInv
<1>3. CASE FileAt(id, s) = NULL
  <2>1. References(id, s) = {}
    BY <1>2, <1>3, ReferencesAre
  <2> QED BY <1>1, <1>3, <2>1, FS_EmptySet
<1>4. ASSUME NEW fd \in Fds, Stands(fd, id, s)
      PROVE  FileAt(id, s) # NULL /\ Cardinality(References(id, s)) = 1
  <2>1. References(id, s) = {fd}
    BY <1>2, <1>4, ReferencesAre
  <2> QED BY <1>2, <1>4, <2>1, FS_Singleton
<1>5. ASSUME NEW t \in Tasks, Takes(t, id, s)
      PROVE  FileAt(id, s) # NULL /\ Cardinality(References(id, s)) = 1
  <2>1. References(id, s) = {t}
    BY <1>2, <1>5, ReferencesAre
  <2> QED BY <1>2, <1>5, <2>1, FS_Singleton
<1> QED BY <1>1, <1>2, <1>3, <1>4, <1>5

\* The tables agree, for any number of tasks, descriptors and slots: an open file of
\* a registered file system is reachable through one descriptor, or is about to be,
\* and a descriptor leads to an open file (esp_vfs_open, esp_vfs_close, vfs_fat_open,
\* esp_vfs_unregister_with_id).
THEOREM TablesAgree == Spec => []SlotsMatchTable
<1>1. ASSUME IInv PROVE SlotsMatchTable
  <2>1. TypeOK
    BY <1>1 DEF IInv
  <2>2. ASSUME NEW id \in VfsIds, s_vfs[id] # NULL, ~ undefined
        PROVE  /\ mem[s_vfs[id].ctx] # NULL
               /\ \A s \in Slots : Cardinality(References(id, s)) =
                    IF mem[s_vfs[id].ctx].files[s] = NULL THEN 0 ELSE 1
    <3>1. Good /\ Registered(id)
      BY <1>1, <2>2 DEF IInv, Good, Registered
    <3>2. mem[s_vfs[id].ctx] # NULL
      BY <3>1 DEF Good, Sound, RegistryInv, CtxOf
    <3> QED BY <3>1, <3>2, OneReference
  <2>3. ASSUME NEW fd \in Fds, fd < VfsMax, s_fd_table[fd] # FD_TABLE_ENTRY_UNUSED
        PROVE  Cardinality({t \in Tasks : fd \in held[t]}) = 1
    <3>1. PICK u \in Tasks : fd \in held[u]
      BY <1>1, <2>3 DEF IInv, HeldInv
    <3>2. {t \in Tasks : fd \in held[t]} = {u}
      BY <1>1, <3>1 DEF IInv, HeldInv
    <3> QED BY <3>2, FS_Singleton
  <2> QED BY <2>1, <2>2, <2>3 DEF SlotsMatchTable
<1> QED BY <1>1, Invariance, PTL
-------------------------------------------------------------------------------
(* The paths of a mounted library lead to its volume.                      *)
LEMMA OwnVolume ==
  ASSUME Good, NEW lib \in Kinds, NEW n \in Names, mem[lib] # NULL
  PROVE  LET id == get_vfs_for_path(s_vfs, Append(PathOf(lib), n))
         IN  id # NULL /\ s_vfs[id].ctx = lib
<1> DEFINE p == PathOf(lib)
           path == Append(p, n)
           id == get_vfs_for_path(s_vfs, path)
           q == s_vfs[id].path_prefix
<1>1. p \in Seq(Alphabet) /\ n \in Alphabet
  BY PathFacts DEF Alphabet
<1>2. IsPrefix(p, path) /\ path \in Seq(Alphabet) /\ Len(path) \in Nat
  BY <1>1, BaseMatches, AppendProperties, LenProperties
<1>3. PICK own \in VfsIds : Registered(own) /\ CtxOf(own) = lib
  BY DEF Good, Sound, RegistryInv
<1>4. s_vfs[own].path_prefix = p
  BY <1>3 DEF Good, Sound, RegistryInv
<1>5. own \in Matches(s_vfs, path)
  BY <1>2, <1>3, <1>4 DEF Matches, Registered
<1>6. \A i \in Matches(s_vfs, path) :
        /\ s_vfs[i].path_prefix \in Seq(Alphabet) /\ Len(s_vfs[i].path_prefix) \in Nat
        /\ Len(s_vfs[i].path_prefix) <= Len(path)
  BY MatchFacts
<1>7. id \in Matches(s_vfs, path) /\ Len(s_vfs[own].path_prefix) <= Len(q)
  <2> HIDE DEF path
  <2> QED BY <1>2, <1>5, <1>6, Resolves
<1> HIDE DEF id, p
<1>8. id \in VfsIds /\ Registered(id) /\ IsPrefix(q, path) /\ q \in Seq(Alphabet) /\ Len(p) <= Len(q)
  BY <1>4, <1>6, <1>7 DEF Matches, Registered
<1>9. CtxOf(id) \in Kinds /\ q = PathOf(CtxOf(id))
  BY <1>8, RegisteredFacts DEF Good, Sound, RegistryInv
<1>10. q = p \/ q = Append(p, n)
  BY <1>1, <1>8, LongPrefix
<1>11. CtxOf(id) = lib
  BY <1>9, <1>10, FilesAssumption, MountsAssumption DEF p, PathOf, Kinds
<1>12. id # NULL
  BY <1>8, VfsAssumption DEF VfsIds
<1> QED BY <1>11, <1>12 DEF CtxOf, id, p

\* For any paths and names: a library that says it is mounted reaches its own volume
\* by its paths, and FFat can be unmounted unless the context cut its path
\* (F_Fat::begin, esp_vfs_fat_register, get_vfs_for_path).
THEOREM MountIsUsable == Spec => []MountedIsUsable
<1>1. ASSUME IInv PROVE MountedIsUsable
  <2>1. SUFFICES ASSUME ~ undefined, NEW lib \in Kinds, mountpoint[lib] # NULL,
                        ~ (lib = "fat" /\ noMem)
                 PROVE  /\ \A n \in Names :
                             LET id == get_vfs_for_path(s_vfs, Append(mountpoint[lib], n))
                             IN  id # NULL /\ s_vfs[id].ctx = lib
                        /\ lib = "fat" =>
                             /\ s_fat_ctx # NULL
                             /\ \/ mem[s_fat_ctx].base_path = FatCut
                                \/ mem[s_fat_ctx].mounted /\ s_base_path = mem[s_fat_ctx].base_path
    BY DEF MountedIsUsable
  <2>2. Good
    BY <1>1, <2>1 DEF IInv, Good
  <2>3. mountpoint[lib] = PathOf(lib) /\ mem[lib] # NULL
    BY <2>1, <2>2 DEF Good, Sound, RegistryInv, Kinds
  <2>4. lib = "fat" => /\ s_fat_ctx # NULL
                       /\ \/ mem[s_fat_ctx].base_path = FatCut
                          \/ mem[s_fat_ctx].mounted /\ s_base_path = mem[s_fat_ctx].base_path
    BY <2>2, <2>3, KindFacts DEF Good, Sound, RegistryInv, FatOk
  <2>5. \A n \in Names : LET id == get_vfs_for_path(s_vfs, Append(mountpoint[lib], n))
                         IN  id # NULL /\ s_vfs[id].ctx = lib
    BY <2>2, <2>3, OwnVolume
  <2> QED BY <2>4, <2>5
<1> QED BY <1>1, Invariance, PTL
-------------------------------------------------------------------------------
(* The file table.  Task u holds descriptor fd until the driver has closed *)
(* the file.                                                               *)
Holds(u, fd) == fd \in held[u] /\ ~ (call[u].pc = "clear" /\ call[u].fd = fd)
FileOn(fd) == FileAt(s_fd_table[fd].vfs_index, s_fd_table[fd].local_fd)
BoundOk ==
  \A fd \in Fds :
    /\ (\A u \in Tasks : ~ Holds(u, fd)) => Bound(fd) = NULL
    /\ \A u \in Tasks : Holds(u, fd) => Bound(fd) = [by |-> u, file |-> FileOn(fd)]

LEMMA BoundIs == HeldInv => BoundOk
<1>1. SUFFICES ASSUME HeldInv, NEW fd \in Fds
               PROVE  /\ (\A u \in Tasks : ~ Holds(u, fd)) => Bound(fd) = NULL
                      /\ \A u \in Tasks : Holds(u, fd) => Bound(fd) = [by |-> u, file |-> FileOn(fd)]
  BY DEF BoundOk
<1>2. (\A u \in Tasks : ~ Holds(u, fd)) => Bound(fd) = NULL
  BY DEF Holds, Bound
<1>3. ASSUME NEW u \in Tasks, Holds(u, fd)
      PROVE  Bound(fd) = [by |-> u, file |-> FileOn(fd)]
  <2>1. (CHOOSE t \in Tasks : fd \in held[t]) = u
    BY <1>1, <1>3 DEF HeldInv, Holds
  <2>2. \E t \in Tasks : fd \in held[t] /\ ~ (call[t].pc = "clear" /\ call[t].fd = fd)
    BY <1>3 DEF Holds
  <2>3. mem[s_vfs[s_fd_table[fd].vfs_index].ctx].files[s_fd_table[fd].local_fd] = FileOn(fd)
    BY DEF FileOn, FileAt, CtxOf
  <2> QED BY <2>1, <2>2, <2>3 DEF Bound
<1> QED BY <1>2, <1>3

LEMMA BoundIsNext == HeldInv' => BoundOk'
BY BoundIs, PTL

\* A descriptor keeps its file.
LEMMA BoundSame ==
  ASSUME HeldInv, HeldInv', NEW fd \in Fds,
         \A u \in Tasks : Holds(u, fd)' <=> Holds(u, fd),
         \A u \in Tasks : Holds(u, fd) => FileOn(fd)' = FileOn(fd)
  PROVE  Bound(fd)' = Bound(fd)
<1>1. BoundOk /\ BoundOk'
  BY BoundIs, BoundIsNext
<1>2. CASE \A u \in Tasks : ~ Holds(u, fd)
  BY <1>1, <1>2 DEF BoundOk
<1>3. ASSUME NEW u \in Tasks, Holds(u, fd) PROVE Bound(fd)' = Bound(fd)
  <2>1. Bound(fd) = [by |-> u, file |-> FileOn(fd)]
    BY <1>1, <1>3 DEF BoundOk
  <2>2. Bound(fd)' = [by |-> u, file |-> FileOn(fd)']
    BY <1>1, <1>3 DEF BoundOk
  <2> QED BY <1>3, <2>1, <2>2
<1> QED BY <1>2, <1>3

\* A held descriptor is live, stands for its slot and leads to an open file.
LEMMA HeldFacts ==
  ASSUME Good, NEW u \in Tasks, NEW fd \in Fds, Holds(u, fd)
  PROVE  LET id == s_fd_table[fd].vfs_index
             s == s_fd_table[fd].local_fd
         IN  /\ id \in VfsIds /\ s \in Slots /\ Registered(id) /\ Stands(fd, id, s)
             /\ FileOn(fd) = FileAt(id, s) /\ FileOn(fd) # NULL
             /\ CtxOf(id) \in Kinds /\ mem[CtxOf(id)] # NULL
             /\ FileOn(fd) \in FilesOf(CtxOf(id))
<1> DEFINE id == s_fd_table[fd].vfs_index
           s == s_fd_table[fd].local_fd
<1>1. s_fd_table[fd] \in [vfs_index : VfsIds, local_fd : Slots] /\ Registered(id)
  BY DEF Holds, Good, Sound, SlotInv
<1>2. id \in VfsIds /\ s \in Slots
  BY <1>1
<1>3. Live(fd)
  <2>1. ASSUME NEW w \in Tasks, call[w].pc = "clear", call[w].fd = fd PROVE FALSE
    <3>1. fd \in held[w]
      BY <2>1 DEF Good, Sound, CallInv, CallOk, OnFd
    <3>2. w = u
      BY <3>1 DEF Holds, Good, HeldInv
    <3> QED BY <2>1, <3>2 DEF Holds
  <2> QED BY <2>1 DEF Live, Holds
<1>4. Stands(fd, id, s) /\ FileOn(fd) = FileAt(id, s)
  BY <1>3 DEF Stands, FileOn
<1> HIDE DEF id, s
<1>5. FileAt(id, s) # NULL
  BY <1>1, <1>2, <1>4 DEF Good, Sound, RefInv
<1>6. CtxOf(id) \in Kinds /\ mem[CtxOf(id)] # NULL
  BY <1>1, <1>2, RegisteredFacts DEF Good, Sound
<1>7. FileAt(id, s) \in FilesOf(CtxOf(id))
  BY <1>2, <1>5, <1>6 DEF FileAt, Good, Sound, VolumeInv
<1> QED BY <1>1, <1>2, <1>4, <1>5, <1>6, <1>7 DEF id, s

\* Files have no part in NULL, and the two volumes none in each other.
LEMMA VolumeFacts ==
  /\ UNION {FilesOf(k) : k \in Kinds} = AllFiles
  /\ \A u \in Tasks, f \in AllFiles : [by |-> u, file |-> f] # NULL
  /\ \A c, d \in Kinds : \A f : f \in FilesOf(c) /\ f \in FilesOf(d) => c = d
<1>1. UNION {FilesOf(k) : k \in Kinds} = AllFiles
  BY DEF Kinds, AllFiles
<1>2. \A u \in Tasks, f \in AllFiles : [by |-> u, file |-> f] # NULL
  BY FilesAssumption
<1>3. \A c \in Kinds : \A f : f \in FilesOf(c) => f.volume = c
  BY DEF FilesOf, FileOf
<1> QED BY <1>1, <1>2, <1>3

LEMMA HeldBound ==
  ASSUME Good, NEW u \in Tasks, NEW fd \in Fds, Holds(u, fd)
  PROVE  /\ Bound(fd) = [by |-> u, file |-> FileOn(fd)] /\ Bound(fd) # NULL
         /\ FileOn(fd) \in AllFiles
<1>1. Bound(fd) = [by |-> u, file |-> FileOn(fd)]
  BY BoundIs DEF BoundOk, Good
<1>2. FileOn(fd) \in AllFiles
  BY HeldFacts, VolumeFacts
<1> QED BY <1>1, <1>2, VolumeFacts

BindingsOk ==
  \A u \in Tasks, fd \in Fds : Holds(u, fd) =>
    Bound(fd) = [by |-> u, file |-> FileOn(fd)] /\ FileOn(fd) \in AllFiles

LEMMA BindingsAre == Good => BindingsOk
BY HeldBound DEF BindingsOk

LEMMA BindingsNext == Good' => BindingsOk'
BY BindingsAre, PTL

LEMMA RestStep ==
  ASSUME \A fd \in Fds : Bound(fd)' = Bound(fd), last' = NULL
  PROVE  Table!Next
<1>1. [fd \in Fds |-> Bound(fd)]' = [fd \in Fds |-> Bound(fd)]
  OBVIOUS
<1> QED BY <1>1 DEF Table!Next, Table!Rest

\* A step that leaves descriptors and slots as they are leaves the table as it is.
LEMMA NeutralBound ==
  ASSUME Good, Good', NEW t \in Tasks, NeutralStep(t)
  PROVE  \A fd \in Fds : Bound(fd)' = Bound(fd)
<1>1. SUFFICES ASSUME NEW fd \in Fds PROVE Bound(fd)' = Bound(fd)
  OBVIOUS
<1>2. \A u \in Tasks : Holds(u, fd)' <=> Holds(u, fd)
  BY DEF Holds, NeutralStep, OthersKeep, SameTable
<1>3. ASSUME NEW u \in Tasks, Holds(u, fd) PROVE FileOn(fd)' = FileOn(fd)
  <2>1. s_fd_table'[fd] = s_fd_table[fd]
    BY DEF NeutralStep, SameTable
  <2>2. CtxOf(s_fd_table[fd].vfs_index) \in Kinds /\ mem[CtxOf(s_fd_table[fd].vfs_index)] # NULL
    BY <1>3, HeldFacts
  <2> QED BY <2>1, <2>2 DEF FileOn, FileAt, CtxOf, NeutralStep, Fixed, SameFiles
<1> QED BY <1>2, <1>3, BoundSame DEF Good
\* The file of a descriptor after a step, by its entry before it.
LEMMA FileOnNext ==
  ASSUME Good, NEW u \in Tasks, NEW fd \in Fds, Holds(u, fd), s_fd_table'[fd] = s_fd_table[fd],
         \A i \in VfsIds, r \in Slots : Registered(i) /\ Stands(fd, i, r) => FileAt(i, r)' = FileAt(i, r)
  PROVE  FileOn(fd)' = FileOn(fd)
<1>1. SUFFICES ASSUME NEW i, NEW r, i = s_fd_table[fd].vfs_index, r = s_fd_table[fd].local_fd
               PROVE  FileOn(fd)' = FileOn(fd)
  OBVIOUS
<1>2. i \in VfsIds /\ r \in Slots /\ Registered(i) /\ Stands(fd, i, r) /\ FileOn(fd) = FileAt(i, r)
  BY <1>1, HeldFacts
<1>3. FileOn(fd)' = FileAt(i, r)'
  BY <1>1 DEF FileOn, FileAt, CtxOf
<1> QED BY <1>2, <1>3

LEMMA OpenBound ==
  ASSUME Good, Good', NEW t \in Tasks, NEW id, NEW s, NEW f, Opens(t, id, s, f)
  PROVE  \A fd \in Fds : Bound(fd)' = Bound(fd)
<1>1. SUFFICES ASSUME NEW fd \in Fds PROVE Bound(fd)' = Bound(fd)
  OBVIOUS
<1>2. \A u \in Tasks : Holds(u, fd)' <=> Holds(u, fd)
  BY DEF Holds, Opens, OthersKeep, SameTable
<1>3. \A i \in VfsIds, r \in Slots : Registered(i) /\ Stands(fd, i, r) => FileAt(i, r)' = FileAt(i, r)
  <2>1. ~ Stands(fd, id, s)
    BY DEF Opens, Good, Sound, RefInv
  <2> QED BY <2>1, OpenViews
<1>4. s_fd_table'[fd] = s_fd_table[fd]
  BY DEF Opens, SameTable
<1>5. \A u \in Tasks : Holds(u, fd) => FileOn(fd)' = FileOn(fd)
  BY <1>3, <1>4, FileOnNext
<1> QED BY <1>2, <1>5, BoundSame DEF Good

LEMMA UndoBound ==
  ASSUME Good, Good', NEW t \in Tasks, Undo(t)
  PROVE  \A fd \in Fds : Bound(fd)' = Bound(fd)
<1>1. SUFFICES ASSUME NEW fd \in Fds PROVE Bound(fd)' = Bound(fd)
  OBVIOUS
<1>2. /\ Frees(t, call[t].vfs, Slot(t)) /\ call[t].pc = "bind" /\ call'[t].pc = "idle"
      /\ Takes(t, call[t].vfs, Slot(t)) /\ call[t].vfs \in VfsIds /\ Slot(t) \in Slots
      /\ Registered(call[t].vfs)
  BY UndoIs, AtBind DEF Good, Undo
<1>3. \A u \in Tasks : Holds(u, fd)' <=> Holds(u, fd)
  BY <1>2 DEF Holds, Frees, OthersKeep, SameTable
<1>4. \A i \in VfsIds, r \in Slots : Registered(i) /\ Stands(fd, i, r) => FileAt(i, r)' = FileAt(i, r)
  <2>1. ~ Stands(fd, call[t].vfs, Slot(t))
    BY <1>2 DEF Good, Sound, RefInv
  <2> QED BY <1>2, <2>1, FreesView
<1>5. s_fd_table'[fd] = s_fd_table[fd]
  BY <1>2 DEF Frees, SameTable
<1>6. \A u \in Tasks : Holds(u, fd) => FileOn(fd)' = FileOn(fd)
  BY <1>4, <1>5, FileOnNext
<1> QED BY <1>3, <1>6, BoundSame DEF Good

LEMMA ClearBound ==
  ASSUME Good, Good', NEW t \in Tasks, Clear(t)
  PROVE  \A fd \in Fds : Bound(fd)' = Bound(fd)
<1>1. SUFFICES ASSUME NEW fd \in Fds, NEW g, g = call[t].fd PROVE Bound(fd)' = Bound(fd)
  OBVIOUS
<1>2. /\ call[t].pc = "clear" /\ Return(t) /\ g \in held[t] /\ g \in Fds
      /\ s_fd_table' = [s_fd_table EXCEPT ![g] = FD_TABLE_ENTRY_UNUSED]
      /\ held' = [held EXCEPT ![t] = @ \ {g}]
  BY <1>1, AtFd DEF Clear, Good, OnFd
<1>3. OthersKeep(t) /\ call'[t].pc = "idle"
  BY <1>2, Returns, TypeFacts DEF Good
<1>4. /\ \A h \in Fds : h # g => s_fd_table'[h] = s_fd_table[h]
      /\ \A u \in Tasks : held'[u] = IF u = t THEN held[u] \ {g} ELSE held[u]
  BY <1>2 DEF Good, TypeOK
<1>5. \A u \in Tasks : u # t => g \notin held[u]
  BY <1>2 DEF Good, HeldInv
<1>6. \A u \in Tasks : Holds(u, fd)' <=> Holds(u, fd)
  BY <1>1, <1>2, <1>3, <1>4, <1>5 DEF Holds, OthersKeep
<1>7. \A i \in VfsIds, r \in Slots : FileAt(i, r)' = FileAt(i, r)
  BY ClearGood DEF FileAt, CtxOf, Fixed
<1>8. ASSUME NEW u \in Tasks, Holds(u, fd) PROVE FileOn(fd)' = FileOn(fd)
  <2>1. fd # g
    BY <1>1, <1>2, <1>5, <1>8 DEF Holds
  <2> QED BY <1>4, <1>7, <1>8, <2>1, FileOnNext
<1> QED BY <1>6, <1>8, BoundSame DEF Good

\* Bind is open() of the file table.
LEMMA BindTable ==
  ASSUME Good, Good', NEW t \in Tasks, NEW fd, Binds(t, fd), last' = NULL
  PROVE  Table!Next
<1>1. fd \in Fds /\ s_fd_table[fd].vfs_index = -1 /\ \A u \in Tasks : fd \notin held[u]
  BY FreeFd DEF Binds
<1>2. Bound(fd) = NULL
  BY <1>1, BoundIs DEF BoundOk, Good, Holds
<1>3. Holds(t, fd)'
  BY <1>1, IdleIs DEF Holds, Binds
<1>4. Bound(fd)' = [by |-> t, file |-> FileOn(fd)'] /\ FileOn(fd)' \in AllFiles
  BY <1>1, <1>3, BindingsNext DEF BindingsOk
<1>5. ASSUME NEW h \in Fds, h # fd PROVE Bound(h)' = Bound(h)
  <2>1. \A u \in Tasks : Holds(u, h)' <=> Holds(u, h)
    BY <1>5 DEF Holds, Binds, OthersKeep
  <2>2. s_fd_table'[h] = s_fd_table[h]
    BY <1>5 DEF Binds
  <2>3. \A i \in VfsIds, r \in Slots : FileAt(i, r)' = FileAt(i, r)
    BY BindViews
  <2>4. \A u \in Tasks : Holds(u, h) => FileOn(h)' = FileOn(h)
    BY <2>2, <2>3, FileOnNext
  <2> QED BY <2>1, <2>4, BoundSame DEF Good
<1>6. SUFFICES ASSUME NEW b, b = Bound(fd)' PROVE Table!Next
  OBVIOUS
<1>7. [h \in Fds |-> Bound(h)]' = [[h \in Fds |-> Bound(h)] EXCEPT ![fd] = b]
  BY <1>1, <1>5, <1>6
<1>8. b \in [by : Tasks, file : UNION {FilesOf(k) : k \in Kinds}]
  BY <1>4, <1>6, VolumeFacts
<1>9. Table!Open(fd, b)
  BY <1>1, <1>2, <1>7 DEF Table!Open
<1> QED BY <1>1, <1>8, <1>9 DEF Table!Next, Table!Bindings

\* DriverClose is close() of the file table.
LEMMA CloseTable ==
  ASSUME Good, Good', NEW t \in Tasks, DriverClose(t)
  PROVE  Table!Next
<1>1. SUFFICES ASSUME NEW g, g = call[t].fd PROVE Table!Next
  OBVIOUS
<1>2. /\ Frees(t, call[t].vfs, Slot(t)) /\ call[t].pc = "driver" /\ call'[t].pc = "clear"
      /\ call'[t].fd = g /\ last' = NULL
  BY <1>1, DriverCloseIs DEF DriverClose, NoWrite
<1>3. /\ g \in Fds /\ g \in held[t] /\ call[t].vfs \in VfsIds /\ Slot(t) \in Slots
      /\ Registered(call[t].vfs)
      /\ s_fd_table[g].vfs_index = call[t].vfs /\ s_fd_table[g].local_fd = Slot(t)
  BY <1>1, <1>2, AtFd DEF Good, OnFd
<1>4. Holds(t, g) /\ \A u \in Tasks : u # t => g \notin held[u]
  BY <1>2, <1>3 DEF Holds, Good, HeldInv
<1>5. Bound(g) # NULL
  BY <1>3, <1>4, HeldBound
<1>6. \A u \in Tasks : ~ Holds(u, g)'
  BY <1>2, <1>4 DEF Holds, Frees, SameTable
<1>7. Bound(g)' = NULL
  BY <1>3, <1>6, BoundIsNext DEF BoundOk, Good
<1>8. ASSUME NEW h \in Fds, h # g PROVE Bound(h)' = Bound(h)
  <2>1. \A u \in Tasks : Holds(u, h)' <=> Holds(u, h)
    BY <1>2, <1>8 DEF Holds, Frees, SameTable, OthersKeep
  <2>2. \A i \in VfsIds, r \in Slots : Registered(i) /\ Stands(h, i, r) => FileAt(i, r)' = FileAt(i, r)
    <3>1. Stands(g, call[t].vfs, Slot(t))
      BY <1>3, <1>4, HeldFacts
    <3>2. ~ Stands(h, call[t].vfs, Slot(t))
      BY <1>3, <1>8, <3>1 DEF Good, Sound, RefInv
    <3> QED BY <1>2, <3>2, FreesView
  <2>3. s_fd_table'[h] = s_fd_table[h]
    BY <1>2 DEF Frees, SameTable
  <2>4. \A u \in Tasks : Holds(u, h) => FileOn(h)' = FileOn(h)
    BY <2>2, <2>3, FileOnNext
  <2> QED BY <2>1, <2>4, BoundSame DEF Good
<1>9. [h \in Fds |-> Bound(h)]' = [[h \in Fds |-> Bound(h)] EXCEPT ![g] = NULL]
  BY <1>3, <1>7, <1>8
<1>10. Table!Close(g)
  BY <1>2, <1>3, <1>5, <1>9 DEF Table!Close
<1> QED BY <1>3, <1>10 DEF Table!Next
\* A write through a descriptor reaches the file it stands for.
LEMMA WriteTable ==
  ASSUME Good, Good', NEW t \in Tasks, NeutralStep(t), call[t].pc \in {"driver", "io"},
         last' = [by |-> t, file |-> mem[Ctx(t)].files[Slot(t)]]
  PROVE  Table!Next
<1>1. SUFFICES ASSUME NEW g, g = call[t].fd PROVE Table!Next
  OBVIOUS
<1>2. /\ g \in Fds /\ g \in held[t]
      /\ s_fd_table[g].vfs_index = call[t].vfs /\ s_fd_table[g].local_fd = Slot(t)
      /\ Ctx(t) = CtxOf(call[t].vfs)
  BY <1>1, AtFd DEF Good, OnFd
<1>3. Holds(t, g)
  BY <1>2 DEF Holds
<1>4. FileOn(g) = mem[Ctx(t)].files[Slot(t)]
  BY <1>2 DEF FileOn, FileAt
<1>5. Bound(g) = [by |-> t, file |-> FileOn(g)] /\ Bound(g) # NULL
  BY <1>2, <1>3, HeldBound
<1>6. [h \in Fds |-> Bound(h)]' = [h \in Fds |-> Bound(h)]
  BY NeutralBound
<1>7. Table!Write(g)
  BY <1>2, <1>4, <1>5, <1>6 DEF Table!Write
<1> QED BY <1>2, <1>7 DEF Table!Next

LEMMA WriteStepTable ==
  ASSUME Good, Good', NEW t \in Tasks, Write(t)
  PROVE  Table!Next
<1>1. /\ call[t].pc = "driver" /\ NeutralStep(t)
      /\ last' = IF mem[Ctx(t)].files[Slot(t)] = NULL \/ ~mem[Ctx(t)].mounted THEN NULL
                 ELSE [by |-> t, file |-> mem[Ctx(t)].files[Slot(t)]]
  BY WriteStep DEF Write
<1>2. CASE mem[Ctx(t)].files[Slot(t)] = NULL \/ ~mem[Ctx(t)].mounted
  BY <1>1, <1>2, NeutralBound, RestStep
<1>3. CASE ~(mem[Ctx(t)].files[Slot(t)] = NULL \/ ~mem[Ctx(t)].mounted)
  BY <1>1, <1>3, WriteTable
<1> QED BY <1>2, <1>3

LEMMA TransferTable ==
  ASSUME Good, Good', NEW t \in Tasks, Transfer(t)
  PROVE  Table!Next
<1>1. call[t].pc = "io" /\ NeutralStep(t)
  BY TransferStep DEF Transfer
<1>2. CASE last' = [by |-> t, file |-> mem[Ctx(t)].files[Slot(t)]]
  BY <1>1, <1>2, WriteTable
<1>3. CASE last' = NULL
  BY <1>1, <1>3, NeutralBound, RestStep
<1> QED BY <1>2, <1>3 DEF Transfer

LEMMA TaskTable ==
  ASSUME Good, Good', NEW t \in Tasks, Start(t) \/ Step(t)
  PROVE  Table!Next
<1>1. CASE \E lib \in Kinds, n \in Names : Open(t, lib, n)
  BY <1>1, OpenIs, OpenBound, RestStep DEF Open, NoWrite
<1>2. CASE \E fd \in held[t] : LookupVfs(t, fd)
  BY <1>2, LookupVfsStep, NeutralBound, RestStep DEF LookupVfs, NoWrite
<1>3. CASE Bind(t)
  BY <1>3, BindIs, BindTable DEF Bind, NoWrite
<1>4. CASE Undo(t)
  BY <1>4, UndoBound, RestStep DEF Undo, NoWrite
<1>5. CASE LookupLocal(t)
  BY <1>5, LookupLocalStep, NeutralBound, RestStep DEF LookupLocal, NoWrite
<1>6. CASE Write(t)
  BY <1>6, WriteStepTable
<1>7. CASE DriverClose(t)
  BY <1>7, CloseTable
<1>8. CASE Clear(t)
  BY <1>8, ClearBound, RestStep DEF Clear, NoWrite
<1>9. CASE Seek(t)
  BY <1>9, SeekStep, NeutralBound, RestStep DEF Seek, NoWrite
<1>10. CASE Unsupported(t)
  BY <1>10, UnsupportedStep, NeutralBound, RestStep DEF Unsupported, NoWrite
<1>11. CASE Transfer(t)
  BY <1>11, TransferTable
<1>12. CASE DiskFull(t)
  BY <1>12, DiskFullStep, NeutralBound, RestStep DEF DiskFull, NoWrite
<1>13. CASE Restore(t)
  BY <1>13, RestoreStep, NeutralBound, RestStep DEF Restore, NoWrite
<1> QED BY <1>1, <1>2, <1>3, <1>4, <1>5, <1>6, <1>7, <1>8, <1>9, <1>10, <1>11, <1>12, <1>13
        DEF Start, Step

\* Mounting leaves the descriptors their files.
LEMMA MountBound ==
  ASSUME Good, HeldInv', UNCHANGED <<call, held>>, s_fd_table' = s_fd_table,
         \A u \in Tasks : \A fd \in held[u] :
           LET i == s_fd_table[fd].vfs_index
           IN  s_vfs'[i] = s_vfs[i] /\ mem'[CtxOf(i)].files = mem[CtxOf(i)].files
  PROVE  \A fd \in Fds : Bound(fd)' = Bound(fd)
<1>1. SUFFICES ASSUME NEW fd \in Fds PROVE Bound(fd)' = Bound(fd)
  OBVIOUS
<1>2. \A u \in Tasks : Holds(u, fd)' <=> Holds(u, fd)
  BY DEF Holds
<1>3. \A u \in Tasks : Holds(u, fd) => FileOn(fd)' = FileOn(fd)
  BY DEF Holds, FileOn, FileAt, CtxOf
<1> QED BY <1>2, <1>3, BoundSame DEF Good

LEMMA MountTable ==
  ASSUME Good, IInv', Mount
  PROVE  Table!Next
<1>1. Quiet /\ UNCHANGED <<call, held>> /\ last' = NULL /\ HeldInv'
  BY DEF Mount, NoWrite, IInv
<1>2. \A u \in Tasks : \A fd \in held[u] :
        LET i == s_fd_table[fd].vfs_index
        IN  i \in VfsIds /\ Registered(i) /\ CtxOf(i) \in Kinds
  BY RegisteredFacts DEF Good, Sound, SlotInv
<1>3. ASSUME NEW k, NEW id, NEW base, Registers(k, id, base) PROVE Table!Next
  <2>1. /\ \A i \in VfsIds : i # id => s_vfs'[i] = s_vfs[i]
        /\ \A d \in Kinds : d # k => mem'[d] = mem[d]
        /\ \A i \in VfsIds : Registered(i) => i # id /\ CtxOf(i) # k
    BY <1>3, RegistersEffect
  <2>2. s_fd_table' = s_fd_table
    BY <1>3 DEF Registers
  <2> QED BY <1>1, <1>2, <2>1, <2>2, MountBound, RestStep
<1>4. CASE F_Fat_begin
  BY <1>1, <1>3, <1>4, FatBeginStep
<1>5. CASE F_Fat_begin_fails \/ F_Fat_begin_no_memory \/ F_Fat_format
  BY <1>1, <1>5, FatFlagsStep, MountBound, RestStep
<1>6. CASE SPIFFS_begin
  BY <1>1, <1>3, <1>6, SpiffsBeginStep
<1>7. ASSUME NoSpiffsFileOpen, efs = "spiffs"
      PROVE  \A u \in Tasks : \A fd \in held[u] : CtxOf(s_fd_table[fd].vfs_index) # "spiffs"
  BY <1>7 DEF NoSpiffsFileOpen, CtxOf
<1>8. CASE NoSpiffsFileOpen /\ SPIFFS_format_fails
  <2>1. Fixed /\ SameTable /\ \A d \in Kinds : d # "spiffs" => mem'[d] = mem[d]
    BY <1>1, <1>8, FormatFailsStep
  <2>2. efs = "spiffs"
    BY <1>8, KindFacts DEF SPIFFS_format_fails, SpiffsMounted, Good, Sound
  <2> QED BY <1>1, <1>2, <1>7, <1>8, <2>1, <2>2, MountBound, RestStep DEF Fixed, SameTable
<1>9. CASE NoSpiffsFileOpen /\ SPIFFS_format_frees
  <2>1. efs = "spiffs"
    BY <1>9, KindFacts DEF SPIFFS_format_frees, Good, Sound
  <2>2. /\ s_vfs' = s_vfs /\ s_fd_table' = s_fd_table
        /\ \A d \in Kinds : d # "spiffs" => mem'[d] = mem[d]
    BY <1>9, <2>1 DEF SPIFFS_format_frees, Good, TypeOK
  <2> QED BY <1>1, <1>2, <1>7, <1>9, <2>1, <2>2, MountBound, RestStep
<1>10. CASE F_Fat_begin_fails_cut
  BY <1>1, <1>2, <1>10, BeginCutStep, MountBound, RestStep
<1>11. CASE F_Fat_end_cut
  BY <1>1, <1>2, <1>11, EndCutStep, MountBound, RestStep
<1> QED BY <1>4, <1>5, <1>6, <1>8, <1>9, <1>10, <1>11 DEF Mount

\* Unmounting a volume closes its descriptors and no other.
LEMMA UnmountTable ==
  ASSUME Good, Good', Unmount
  PROVE  Table!Next
<1>1. PICK k \in Kinds : \E id : Unregisters(k, id)
  BY UnmountStep
<1>2. PICK id : Unregisters(k, id)
  BY <1>1
<1>3. Quiet /\ call' = call /\ last' = NULL /\ id \in VfsIds /\ CtxOf(id) = k /\ Registered(id)
  BY <1>2 DEF Unmount, NoWrite, Unregisters
<1>4. \A u \in Tasks : call[u].pc # "clear" /\ call'[u].pc # "clear"
  BY <1>3, QuietFacts
<1>5. ASSUME NEW fd \in Fds
      PROVE  Bound(fd)' = IF Bound(fd) # NULL /\ Bound(fd).file \in FilesOf(k) THEN NULL ELSE Bound(fd)
  <2>1. CASE \A u \in Tasks : fd \notin held[u]
    <3>1. Bound(fd) = NULL
      BY <2>1, BoundIs DEF BoundOk, Good, Holds
    <3>2. Bound(fd)' = NULL
      BY <1>2, <2>1, UnregistersEffect, BoundIsNext DEF BoundOk, Good, Holds
    <3> QED BY <3>1, <3>2
  <2>2. ASSUME NEW u \in Tasks, fd \in held[u], NEW i, i = s_fd_table[fd].vfs_index
        PROVE  Bound(fd)' = IF Bound(fd) # NULL /\ Bound(fd).file \in FilesOf(k) THEN NULL ELSE Bound(fd)
    <3>1. Holds(u, fd)
      BY <1>4, <2>2 DEF Holds
    <3>2. /\ Bound(fd) # NULL /\ Bound(fd).file = FileOn(fd)
          /\ FileOn(fd) \in FilesOf(CtxOf(i)) /\ CtxOf(i) \in Kinds
          /\ i \in VfsIds /\ Registered(i)
      BY <2>2, <3>1, HeldBound, HeldFacts
    <3>3. FileOn(fd) \in FilesOf(k) <=> CtxOf(i) = k
      BY <3>2, VolumeFacts
    <3>4. CtxOf(i) = k <=> i = id
      BY <1>3, <3>2 DEF Good, Sound, RegistryInv
    <3>5. \A w \in Tasks : \A h : h \in held'[w] <=> h \in held[w] /\ s_fd_table[h].vfs_index # id
      BY <1>2, UnregistersEffect
    <3>6. CASE i = id
      <4>1. \A w \in Tasks : ~ Holds(w, fd)'
        BY <2>2, <3>5, <3>6 DEF Holds
      <4>2. Bound(fd)' = NULL
        BY <4>1, BoundIsNext DEF BoundOk, Good
      <4> QED BY <3>2, <3>3, <3>4, <3>6, <4>2
    <3>7. CASE i # id
      <4>1. \A w \in Tasks : Holds(w, fd)' <=> Holds(w, fd)
        BY <1>4, <2>2, <3>5, <3>7 DEF Holds
      <4>2. s_fd_table'[fd] = s_fd_table[fd] /\ s_vfs'[i] = s_vfs[i] /\ mem'[CtxOf(i)] = mem[CtxOf(i)]
        BY <1>2, <2>2, <3>2, <3>4, <3>7, UnregistersEffect
      <4>3. FileOn(fd)' = FileOn(fd)
        BY <2>2, <4>2 DEF FileOn, FileAt, CtxOf
      <4>4. Bound(fd)' = Bound(fd)
        BY <4>1, <4>3, BoundSame DEF Good
      <4> QED BY <3>2, <3>3, <3>4, <3>7, <4>4
    <3> QED BY <3>6, <3>7
  <2> QED BY <2>1, <2>2
<1>6. [fd \in Fds |-> Bound(fd)]' =
        [fd \in Fds |-> IF [h \in Fds |-> Bound(h)][fd] # NULL /\ [h \in Fds |-> Bound(h)][fd].file \in FilesOf(k)
                        THEN NULL ELSE [h \in Fds |-> Bound(h)][fd]]
  BY <1>5
<1>7. Table!Unmount(FilesOf(k))
  BY <1>3, <1>6 DEF Table!Unmount
<1> QED BY <1>1, <1>7 DEF Table!Next

\* The virtual file system implements FileTable: a write reaches the file that the
\* writer's own open() named, whatever other tasks open, close or unmount.
THEOREM FileTableIsImplemented == Spec => ImplementsFileTable
<1>1. Init => Table!Init
  <2>1. SUFFICES ASSUME Init PROVE Table!Init
    OBVIOUS
  <2>2. \A fd \in Fds : Bound(fd) = NULL
    BY <2>1 DEF Init, Bound
  <2> QED BY <2>1, <2>2 DEF Init, Table!Init
<1>2. IInv /\ IInv' /\ [Next]_vars => [Table!Next]_<<[fd \in Fds |-> Bound(fd)], last>>
  <2>1. SUFFICES ASSUME IInv, IInv', [Next]_vars
                 PROVE  [Table!Next]_<<[fd \in Fds |-> Bound(fd)], last>>
    OBVIOUS
  <2>2. CASE UNCHANGED vars
    <3>1. [fd \in Fds |-> Bound(fd)]' = [fd \in Fds |-> Bound(fd)]
      BY <2>2 DEF vars, mountVars, Bound
    <3> QED BY <2>2, <3>1 DEF vars
  <2>3. CASE Next
    <3>1. Good
      BY <2>1, <2>3 DEF Next, IInv, Good
    <3>2. CASE Mount
      BY <2>1, <3>1, <3>2, MountTable
    <3>3. CASE Unmount
      BY <3>1, <3>3, UnmountStep, UnmountTable
    <3>4. CASE \E t \in Tasks : Start(t) \/ Step(t)
      BY <3>1, <3>4, TaskStep, TaskTable
    <3> QED BY <2>3, <3>2, <3>3, <3>4 DEF Next
  <2> QED BY <2>1, <2>2, <2>3
<1> QED BY <1>1, <1>2, Invariance, PTL DEF Spec, ImplementsFileTable, Table!Spec
===============================================================================
