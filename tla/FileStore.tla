----------------------------- MODULE FileStore -----------------------------
(***************************************************************************)
(* What a caller of src/fat.c is promised when nothing runs out: a set of  *)
(* files, each found under one key, and calls that each read or change one *)
(* of them and answer.                                                     *)
(***************************************************************************)
CONSTANTS
  Keys,     \* what tells one file from another
  Texts,    \* the contents a file may have
  NoText    \* those of an empty file

VARIABLES
  files,    \* the file under each key, with its kind and its contents
  reply     \* the last call, its key, whether it succeeded, what it read

Absent == [kind |-> "absent", text |-> NoText]
NoReply == [call |-> "none"]
Kinds == {"none", "file", "dir"}

Reply(call, k, ok, text) ==
  reply' = [call |-> call, key |-> k, ok |-> ok, text |-> text]

\* The call is one for key k.
Answers(k) == reply' # NoReply /\ reply'.key = k

\* A call has begun; the answer to the one before is gone.
Forget == reply' = NoReply /\ UNCHANGED files

Open(k) == Reply("fatOpen", k, files[k] # Absent, NoText) /\ UNCHANGED files

Create(k, kind) ==
  \/ /\ Reply("fatCreate", k, TRUE, NoText)
     /\ files[k] = Absent
     /\ files' = [files EXCEPT ![k] = [kind |-> kind, text |-> NoText]]
  \/ /\ Reply("fatCreate", k, FALSE, NoText)
     /\ files[k] # Absent
     /\ UNCHANGED files

Write(k, t) ==
  /\ Reply("fatWrite", k, TRUE, NoText)
  /\ files[k].kind = "file"
  /\ files' = [files EXCEPT ![k].text = t]

Read(k) ==
  /\ Reply("fatRead", k, TRUE, files[k].text)
  /\ files[k].kind \in {"none", "file"}
  /\ UNCHANGED files

Init ==
  /\ files \in [Keys -> {Absent} \cup [kind: Kinds, text: Texts \cup {NoText}]]
  /\ reply = NoReply

Next ==
  \/ Forget
  \/ \E k \in Keys :
       /\ Answers(k)
       /\ \/ Open(k) \/ Read(k)
          \/ \E kind \in {"file", "dir"} : Create(k, kind)
          \/ \E t \in Texts : Write(k, t)

Spec == Init /\ [][Next]_<<files, reply>>
=============================================================================
