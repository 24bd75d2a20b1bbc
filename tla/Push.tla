-------------------------------- MODULE Push --------------------------------
(***************************************************************************)
(* The add-checkpoint handler (internal/push): Witness up to the outcome   *)
(* of Process, and the answer the log is given for it.                     *)
(***************************************************************************)
EXTENDS Witness

VARIABLE answer  \* per handler: the status, and what its body tells the log

pushVars == <<vars, answer>>

Codes == {"none", "200", "403", "409", "422", "503"}

(* size is a 409's body; signed is the tree under a 200's signature.       *)
Answer == [code : Codes, size : 0..MaxSize, signed : Trees \cup {None}]

Say(code) == [code |-> code, size |-> 0, signed |-> None]
(* Variant: a 409 names the size the log should reach, not ours.           *)
ConflictNext(size) == [Say("409") EXCEPT !.size = size + 1]
Conflict(size) == [Say("409") EXCEPT !.size = size]
Cosignature(t) == [Say("200") EXCEPT !.signed = t]

(* Variant: an unchanged tree is answered with whatever is stored by now.  *)
ReplyStored(r) ==
  LET done == round[r] IN
  CASE done.out \in {"cosigned", "unchanged"} -> Cosignature(head)
    [] OTHER -> Say("503")

(* serve after Process, and processError.  A conflict reads the stored head*)
(* again; so does an unchanged tree, whose cosignature is the stored one.  *)
Reply(r) ==
  LET done == round[r] IN
  CASE done.out = "cosigned"  -> Cosignature(done.next)
    [] done.out = "unchanged" -> IF head = done.next THEN Cosignature(head)
                                               ELSE Conflict(Size(head))
    [] done.out = "forked"    -> IF done.split THEN Conflict(Size(head)) ELSE Say("403")
    [] done.out = "badproof"  -> Say("422")
    [] done.out \in {"raced", "moved"} -> Conflict(Size(head))
    [] OTHER               -> Say("503")

PushInit == Init /\ answer = [r \in Pushers |-> Say("none")]

(* The size line of a stale "old" comes from the handler's first read.     *)
Request(r) ==
  /\ Receive(r)
  /\ answer' = [answer EXCEPT ![r] =
       IF round'[r].out = "conflict" THEN Conflict(Size(head)) ELSE Say("none")]

(* Variant: a round that signed too late is never answered.                *)
RespondUnlessStale(r) ==
  /\ At(r, "idle") /\ round[r].out \notin {"none", "conflict", "stale"}
  /\ answer[r].code = "none"
  /\ answer' = [answer EXCEPT ![r] = Reply(r)]
  /\ UNCHANGED vars

Respond(r) ==
  /\ At(r, "idle") /\ round[r].out \notin {"none", "conflict"}
  /\ answer[r].code = "none"
  /\ answer' = [answer EXCEPT ![r] = Reply(r)]
  /\ UNCHANGED vars

(* A restart closes the connections.                                       *)
PushRestart(m) ==
  /\ Restart(m)
  /\ answer' = [r \in Pushers |-> Say("none")]

Handling(r) == ~At(r, "idle") \/ (round[r].out # "none" /\ answer[r].code = "none")

PushNext ==
  \/ \E r \in Pushers : (~Handling(r) /\ Request(r)) \/ Respond(r)
  \/ \E r \in Rounds : Process(r) /\ UNCHANGED answer
  \/ \E m \in {"serve", "retract"} : PushRestart(m)
  \/ /\ \/ ReportContent \/ RetractFork \/ IntervalPasses
        \/ \E v \in Views, leaf \in Leaf : Grow(v, leaf)
     /\ UNCHANGED answer

PushSpec == PushInit /\ [][PushNext]_pushVars

(* A handler runs on: every call it makes is bounded by the request's      *)
(* context.                                                                *)
PushFairSpec ==
  PushSpec /\ \A r \in Pushers : WF_pushVars(Process(r) /\ UNCHANGED answer)
                                 /\ WF_pushVars(Respond(r))

-----------------------------------------------------------------------------
PushTypeOK == TypeOK /\ answer \in [Pushers -> Answer]

Answered(r, code) == answer[r].code = code

(* A 200 carries our signature over the very tree that was pushed, and that*)
(* cosignature is one the store has held: a race with the poller never     *)
(* hands out a signature over another tree or one that was discarded.      *)
SignsThePushedTree ==
  \A r \in Pushers : Answered(r, "200") =>
    answer[r].signed = round[r].next /\ answer[r].signed \in cosigned

(* A 409 tells the log a size it did not name, so that retrying with it    *)
(* gets on; the exceptions are the split it is told of, and the empty tree,*)
(* stored while the log still names nothing.                               *)
ConflictIsNews ==
  \A r \in Pushers : Answered(r, "409") =>
    \/ round[r].split
    \/ answer[r].size > round[r].old
    \/ round[r].out = "conflict" /\ answer[r].size # round[r].old
    \/ answer[r].size = 0

(* A log that is refused as forked has the evidence on record.             *)
RefusalHasEvidence ==
  \A r \in Pushers : Answered(r, "403") => forks # <<>>

(* Every request is answered, unless the process is restarted under it.    *)
RequestsAnswered ==
  \A r \in Pushers : Handling(r) ~> ~Handling(r)

(* A forked log is told so: once the poison stays, a request that names    *)
(* the stored size is answered 403, never with a 409 it would retry.       *)
ForkedLogIsTold ==
  <>[](poisoned # 0) =>
    <>[][\A r \in Pushers : Respond(r) => Answered(r, "403")']_pushVars
=============================================================================
