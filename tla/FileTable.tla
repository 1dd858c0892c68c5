------------------------------- MODULE FileTable -------------------------------
(***************************************************************************)
(* What the virtual file system promises a task: a descriptor stands for   *)
(* the file its own open() named, from open to close or to the unmounting  *)
(* of the file system, and a write through it reaches that file.           *)
(***************************************************************************)
CONSTANTS
  Descriptors,
  Tasks,
  Volumes,      \* the file systems, each the set of its files
  Unbound       \* no file

VARIABLES
  bound,        \* descriptor -> [by, file] or Unbound
  last          \* the write a step made to a file, [by, file], or Unbound

Bindings == [by : Tasks, file : UNION Volumes]

Init == bound = [d \in Descriptors |-> Unbound] /\ last = Unbound

Open(d, b) ==
  /\ bound[d] = Unbound
  /\ bound' = [bound EXCEPT ![d] = b]
  /\ last' = Unbound

Close(d) ==
  /\ bound[d] # Unbound
  /\ bound' = [bound EXCEPT ![d] = Unbound]
  /\ last' = Unbound

Write(d) ==
  /\ bound[d] # Unbound
  /\ last' = bound[d]
  /\ UNCHANGED bound

\* Unmounting a file system closes the descriptors of its files and no other.
Unmount(S) ==
  /\ bound' = [d \in Descriptors |->
       IF bound[d] # Unbound /\ bound[d].file \in S THEN Unbound ELSE bound[d]]
  /\ last' = Unbound

\* Any other step of the implementation.
Rest == last' = Unbound /\ UNCHANGED bound

Next ==
  \/ Rest
  \/ \E d \in Descriptors : Close(d) \/ Write(d) \/ \E b \in Bindings : Open(d, b)
  \/ \E S \in Volumes : Unmount(S)

Spec == Init /\ [][Next]_<<bound, last>>

===============================================================================
