---------------------------- MODULE SignalAudit ----------------------------
(***************************************************************************)
(* Signal's directory from both of its sides: the auditor that replays the *)
(* stream of updates (internal/signalaudit/state.go, update.go) and the    *)
(* client that searches the log the updates make                           *)
(* (internal/source/signal/search.go).  The operator is external: it sends *)
(* any update put together from the trees it has published, honest or not, *)
(* and answers a search with any response of Responses.                    *)
(***************************************************************************)
EXTENDS SignalTree

CONSTANTS PrefixDepth,        \* levels of the prefix tree (256 in the code)
          Seeds,        \* the seeds of stand-ins
          MaxUpdates    \* the bound on the log's entries

ASSUME PrefixDepthAssumption == PrefixDepth \in Nat \ {0}

VARIABLES auditor,   \* State: the prefix root, the log's size, its frontier
          entries    \* ghost: the log's entries, each with the tree it commits to
signalVars == <<auditor, entries>>

Indexes == [1..PrefixDepth -> {0, 1}]
NoTree == <<"no tree">>

-----------------------------------------------------------------------------
(* Hashing along an index's path.                                          *)
StandIn(seed, level) == <<"stand-in", seed, level>>
FoldPath(value, index, copath) ==
    FoldRight(LAMBDA i, acc : IF index[i] = 0 THEN PrefixParentHash(acc, copath[i])
                              ELSE PrefixParentHash(copath[i], acc),
              [i \in DOMAIN copath |-> i], value)
(* Variant: the level byte of a stand-in is its depth.                     *)
FakeRootAtDepth(index, copath, seed) == FoldPath(StandIn(seed, Len(copath)), index, copath)
FakeRoot(index, copath, seed) == FoldPath(StandIn(seed, Len(copath) - 1), index, copath)
PadCopath(copath, seed) ==
    [i \in 1..PrefixDepth |-> IF i <= Len(copath) THEN copath[i] ELSE StandIn(seed, i - 1)]
RealRoot(index, ctr, pos, copath, seed) ==
    FoldPath(PrefixLeafHash(index, ctr, pos), index, PadCopath(copath, seed))

(* validate                                                                *)
WellFormed(u) ==
    CASE u.proof = "new_tree" -> u.real /\ u.copath = <<>>
      [] u.proof = "different_key" -> Len(u.copath) \in 1..PrefixDepth
      [] u.proof = "same_key" -> u.real /\ Len(u.copath) <= PrefixDepth

(* Apply, case by case: whether u follows from the root and the size, and  *)
(* the root it leads to.  The bound of the counter is not reached.         *)
NewTreeFollows(st, u) == st.size = 0
DifferentKeyFollows(st, u) == st.size # 0 /\ FakeRoot(u.index, u.copath, u.oldSeed) = st.root
SameKeyFollows(st, u) ==
    st.size # 0 /\ RealRoot(u.index, u.counter, u.position, u.copath, u.seed) = st.root
NextRoot(st, u) ==
    CASE u.proof = "new_tree" -> RealRoot(u.index, 0, 0, <<>>, u.seed)
      [] u.proof = "different_key" ->
           IF u.real THEN RealRoot(u.index, 0, st.size, u.copath, u.seed)
           ELSE FakeRoot(u.index, u.copath, u.seed)
      [] u.proof = "same_key" -> RealRoot(u.index, u.counter + 1, u.position, u.copath, u.seed)
UpdateFollows(st, u) ==
    CASE u.proof = "new_tree" -> NewTreeFollows(st, u)
      [] u.proof = "different_key" -> DifferentKeyFollows(st, u)
      [] u.proof = "same_key" -> SameKeyFollows(st, u)
Applied(st, u) ==
    LET next == NextRoot(st, u)
    IN [root |-> next, size |-> st.size + 1,
        subtrees |-> AppendLeaf(st.size, st.subtrees, LogLeafHash(next, u.commitment))]

-----------------------------------------------------------------------------
(* The operator.  A root is a term, so its tree can be read off it.        *)
RECURSIVE LeavesOf(_)
LeavesOf(t) ==
    CASE t[1] = "prefix node" -> LeavesOf(t[2]) \cup LeavesOf(t[3])
      [] t[1] = "prefix leaf" -> {[index |-> t[2], ctr |-> t[3], pos |-> t[4]]}
      [] OTHER -> {}
RECURSIVE SiblingsOf(_, _)
SiblingsOf(t, bits) ==
    IF t[1] # "prefix node" THEN <<>>
    ELSE IF Head(bits) = 0 THEN <<t[3]>> \o SiblingsOf(t[2], Tail(bits))
         ELSE <<t[2]>> \o SiblingsOf(t[3], Tail(bits))
RECURSIVE EndOf(_, _)
EndOf(t, bits) ==
    IF t[1] # "prefix node" THEN t
    ELSE EndOf(IF Head(bits) = 0 THEN t[2] ELSE t[3], Tail(bits))
LeafFor(root, index) == CHOOSE l \in LeavesOf(root) : l.index = index
Holds(root, index) == \E l \in LeavesOf(root) : l.index = index

Commitment(index, real) ==
    IF real THEN CommitmentOf(index, <<"value", auditor.size>>, auditor.size) ELSE <<"random", auditor.size>>
Sent(proof, real, index, seed, copath, old, ctr, pos) ==
    [proof |-> proof, real |-> real, index |-> index, seed |-> seed, copath |-> copath,
     oldSeed |-> old, counter |-> ctr, position |-> pos, commitment |-> Commitment(index, real)]
(* What an honest operator sends: the shortest copath the tree allows.     *)
HonestUpdates ==
    IF auditor.size = 0
    THEN {Sent("new_tree", TRUE, i, s, <<>>, s, 0, 0) : i \in Indexes, s \in Seeds}
    ELSE UNION {
        IF Holds(auditor.root, i)
        THEN LET path == SiblingsOf(auditor.root, i)
                 l == LeafFor(auditor.root, i)
                 cuts == {c \in (0..PrefixDepth) \X Seeds : PadCopath(SubSeq(path, 1, c[1]), c[2]) = path}
                 cut == CHOOSE c \in cuts : \A d \in cuts : c[1] <= d[1]
             IN {Sent("same_key", TRUE, i, cut[2], SubSeq(path, 1, cut[1]), cut[2], l.ctr, l.pos)}
        ELSE {Sent("different_key", real, i, s, SiblingsOf(auditor.root, i), EndOf(auditor.root, i)[2], 0, 0) :
                 real \in BOOLEAN, s \in Seeds}
        : i \in Indexes}
(* What any operator can: pieces of every tree it ever published.          *)
Roots == {entries[i].root : i \in DOMAIN entries}
Copaths == UNION {{SubSeq(path, 1, n) : n \in 0..Len(path)} :
                  path \in {SiblingsOf(r, i) : r \in Roots, i \in Indexes}}
AnyUpdates ==
    {Sent("new_tree", real, i, s, <<>>, s, 0, 0) : real \in BOOLEAN, i \in Indexes, s \in Seeds}
    \cup {Sent("different_key", real, i, s, p, old, 0, 0) :
            real \in BOOLEAN, i \in Indexes, s \in Seeds, p \in Copaths, old \in Seeds}
    \cup {Sent("same_key", real, i, s, p, s, c, at) :
            real \in BOOLEAN, i \in Indexes, s \in Seeds, p \in Copaths, c \in 0..MaxUpdates, at \in 0..MaxUpdates}

SignalInit == auditor = [root |-> NoTree, size |-> 0, subtrees |-> <<>>] /\ entries = <<>>
(* A rejected update leaves the state exactly as it was.                   *)
ApplyUpdate ==
    \E u \in HonestUpdates \cup AnyUpdates :
        /\ auditor.size < MaxUpdates
        /\ WellFormed(u) /\ UpdateFollows(auditor, u)
        /\ auditor' = Applied(auditor, u)
        /\ entries' = Append(entries, [root |-> NextRoot(auditor, u), commitment |-> u.commitment,
                                       index |-> u.index, real |-> u.real])
SignalNext == ApplyUpdate
SignalSpec == SignalInit /\ [][SignalNext]_signalVars

-----------------------------------------------------------------------------
(* A search and its answer.                                                *)
Published == [i \in DOMAIN entries |-> LogLeafHash(entries[i].root, entries[i].commitment)]

(* verifySearch: WalkSearch is its loop, taking a step of the response for *)
(* every entry the guide asks for.                                         *)
Refused == [ok |-> FALSE]
RECURSIVE WalkSearch(_, _, _, _)
WalkSearch(g, index, answer, opened) ==
    LET h == Poll(g)
        i == Len(opened) + 1
        step == answer.steps[i]
        root == EvaluatePrefix(index, step.ctr, answer.pos, step.proof)
    IN CASE h.state = "error" -> Refused
         [] h.state = "done" -> IF Len(answer.steps) # Len(opened) THEN Refused
                                ELSE [ok |-> TRUE, result |-> ResultOf(h), opened |-> opened]
         [] OTHER -> IF i > Len(answer.steps) THEN Refused
                     ELSE IF root = Fails THEN Refused
                     ELSE WalkSearch(Inserted(h, step.ctr), index, answer,
                              Append(opened, [id |-> NextId(h), leaf |-> LogLeafHash(root, step.commitment),
                                              commitment |-> step.commitment, ctr |-> step.ctr]))
Walked(index, wanted, answer, n) ==
    IF answer.pos >= n THEN Refused ELSE WalkSearch(NewGuide(wanted, answer.pos, n), index, answer, <<>>)
ImpliedRoot(opened, n, inclusion) ==
    LET ids == InOrder({opened[i].id : i \in DOMAIN opened})
        leaf(id) == opened[CHOOSE i \in DOMAIN opened : opened[i].id = id].leaf
    IN EvaluateBatch(ids, n, [i \in DOMAIN ids |-> leaf(ids[i])], inclusion)
Concluded(root, found, index, answer) ==
    IF root = Fails \/ ~VerifyCommitment(index, found.commitment, answer.value, answer.nonce) THEN Refused
    ELSE [ok |-> TRUE, root |-> root, pos |-> answer.pos, version |-> found.ctr, value |-> answer.value]
Verified(w, index, answer, n) ==
    IF ~w.ok \/ w.result = 0 THEN Refused
    ELSE Concluded(ImpliedRoot(w.opened, n, answer.inclusion), w.opened[w.result], index, answer)
VerifySearch(index, wanted, answer, n) ==
    Verified(Walked(index, wanted, answer, n), index, answer, n)

(* The operator's answers.                                                 *)
StepFor(id, index) ==
    LET e == entries[id + 1]
    IN [ctr |-> IF Holds(e.root, index) THEN LeafFor(e.root, index).ctr ELSE 0,
        proof |-> Reverse(SiblingsOf(e.root, index)), commitment |-> e.commitment]
AnswerAt(ids, at, index, pos, n) ==
    [pos |-> pos, steps |-> [i \in DOMAIN ids |-> StepFor(ids[i], index)],
     inclusion |-> ProofFor(BatchCopath(InOrder(ToSet(ids)), n), Published),
     value |-> <<"value", at>>, nonce |-> at]
AnswerTo(g, index, pos, n) ==
    AnswerAt(SubSeq(g.ids, 1, Len(g.got)), IF ResultOf(g) = 0 THEN n - 1 ELSE g.ids[ResultOf(g)], index, pos, n)
AnswerFrom(index, wanted, pos, n) ==
    AnswerTo(Searched(NewGuide(wanted, pos, n), [id \in 0..(n - 1) |-> StepFor(id, index).ctr]), index, pos, n)
FirstOf(index) == Min({i - 1 : i \in {j \in DOMAIN entries : Holds(entries[j].root, index)}})
Versions(index) == AnyVersion..LeafFor(Last(entries).root, index).ctr
HonestAnswer(index, wanted) == AnswerFrom(index, wanted, FirstOf(index), auditor.size)
(* A dishonest one: another first position, an older version's answer, one *)
(* counter, proof or commitment of a step, one hash, or another value.     *)
ResponsesBeside(a, index, n) ==
    LET swap(i, s) == [a EXCEPT !.steps[i] = s]
        steps(i) == {[a.steps[i] EXCEPT !.ctr = c] : c \in 0..MaxUpdates}
                    \cup {[a.steps[i] EXCEPT !.proof = StepFor(j, index).proof] : j \in 0..(n - 1)}
                    \cup {StepFor(j, index) : j \in 0..(n - 1)}
                    \cup {[a.steps[i] EXCEPT !.commitment = entries[j].commitment] : j \in 1..n}
    IN {AnswerFrom(index, v, p[1], p[2]) :
           v \in Versions(index), p \in {q \in (0..(n - 1)) \X (1..n) : q[1] < q[2]}}
       \cup {[a EXCEPT !.pos = p] : p \in 0..n}
       \cup UNION {{swap(i, s) : s \in steps(i)} : i \in DOMAIN a.steps}
       \cup {[a EXCEPT !.steps = Front(a.steps)], [a EXCEPT !.steps = Append(a.steps, Last(a.steps))]}
       \cup {[a EXCEPT !.inclusion[i] = ValueAt(0, Published)] : i \in DOMAIN a.inclusion}
       \cup {[a EXCEPT !.value = <<"value", v>>, !.nonce = m] : v \in 0..n, m \in 0..n}

-----------------------------------------------------------------------------
(* Whatever the operator sends, each update the auditor takes changes the  *)
(* directory in one of the ways the protocol allows: it adds one key, at   *)
(* version 0 and at this position, raises one key's version by one without *)
(* moving its first position, or changes no key (Apply's three proofs).    *)
LegalChange ==
    LET before == IF auditor.root = NoTree THEN {} ELSE LeavesOf(auditor.root)
        after == LeavesOf(auditor'.root)
    IN \/ after = before
       \/ \E i \in Indexes :
            /\ ~\E l \in before : l.index = i
            /\ after = before \cup {[index |-> i, ctr |-> 0, pos |-> auditor.size]}
       \/ \E l \in before : after = (before \ {l}) \cup {[l EXCEPT !.ctr = @ + 1]}
EveryChangeIsLegal == [][LegalChange]_signalVars

(* The update an honest operator sends is taken: no rule of the replay     *)
(* refuses what the protocol allows, whatever fakes and stand-ins the tree *)
(* has been through (padCopath and fakeRoot agree on every level).         *)
HonestStreamIsTaken == \A u \in HonestUpdates : WellFormed(u) /\ UpdateFollows(auditor, u)

(* A search that verifies to the log's own root says what the log says:    *)
(* the key's first position, the version asked for (the newest, when none  *)
(* is), and the value committed there, whatever the operator answered; and *)
(* an honest answer verifies (verifySearch and its caller's comparison).   *)
SearchIsBound ==
    auditor.size > 0 =>
        \A l \in LeavesOf(auditor.root) : \A wanted \in Versions(l.index) :
            LET version == IF wanted = AnyVersion THEN l.ctr ELSE wanted
                at == Min({i - 1 : i \in {j \in DOMAIN entries :
                              Holds(entries[j].root, l.index) /\ LeafFor(entries[j].root, l.index).ctr = version}})
                truth == [ok |-> TRUE, root |-> RootOver(Published), pos |-> FirstOf(l.index), version |-> version,
                          value |-> <<"value", at>>]
            IN \A honest \in {HonestAnswer(l.index, wanted)} :
                  /\ VerifySearch(l.index, wanted, honest, auditor.size) = truth
                  /\ \A answer \in ResponsesBeside(honest, l.index, auditor.size) :
                        LET r == VerifySearch(l.index, wanted, answer, auditor.size)
                        IN r.ok => (r.root # truth.root \/ r = truth)

(* The two sides of the directory: the auditor takes all that is legal and *)
(* nothing else, and a search says nothing the log does not.               *)
DirectoryIsAudited == [](HonestStreamIsTaken /\ SearchIsBound) /\ EveryChangeIsLegal
=============================================================================
