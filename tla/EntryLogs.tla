------------------------------ MODULE EntryLogs ------------------------------
(***************************************************************************)
(* The adapters of logs that serve Merkle trees of entries: c2sp           *)
(* (src/internal/source/c2sp/c2sp.go), with and without reading the        *)
(* entries, and sigsum (src/internal/source/sigsum/sigsum.go), with the    *)
(* records of the entries read (src/internal/store/construction.go).       *)
(*                                                                         *)
(* A tree head is the sequence of its leaves, see Heads: ProveTree and     *)
(* CheckTree (external) succeed iff one is a prefix of the other.          *)
(***************************************************************************)
EXTENDS Integers, Sequences, FiniteSets, SequencesExt, FiniteSetsExt

CONSTANTS Entries,
          TileWidth,         \* entries per data tile
          MaxEntries,        \* bound: the largest tree
          MaxAuditEntries,   \* c2sp.Config.MaxAuditEntries
          MaxRecords,        \* store: audits retained per origin
          EntryAdapters,     \* the adapter and whether it verifies entries
          MaxLies            \* bound: forks, bad entries and broken proofs

ASSUME EntryLogsAssumption ==
    /\ TileWidth \in Nat \ {0} /\ {MaxEntries, MaxAuditEntries, MaxRecords, MaxLies} \subseteq Nat
    /\ EntryAdapters \subseteq {"c2sp", "entries", "sigsum"}

VARIABLES kind,       \* the adapter
          since,      \* the entryHead size when it began to verify entries
          logTree,     \* the log's tree
          rival,      \* another history it signs heads of
          dataTiles,  \* the entries its data tiles serve
          entryHead,  \* the stored head
          records,    \* the store: indices with a verified audit record
          read,       \* index -> the entries read there
          walks,      \* the round's and the backfill's pass over the entries
          claim,      \* how many entries the last BackfillResult spans
          accused, lies

entryVars == <<kind, since, logTree, rival, dataTiles, entryHead, records, read, walks, claim,
               accused, lies>>
logVars == <<kind, since, logTree, rival, dataTiles>>

Walkers == {"round", "backfill"}
NoWalk == [pc |-> "idle"]
Signed == UNION {{SubSeq(t, 1, n) : n \in 0..Len(t)} : t \in {logTree, rival}}
Lies(n) == n <= MaxLies - lies /\ lies' = lies + n

-----------------------------------------------------------------------------
(* The log.                                                                *)
Grow(e) ==
    /\ Len(logTree) < MaxEntries
    /\ logTree' = Append(logTree, e)
    /\ \E p \in Entries :
         /\ dataTiles' = Append(dataTiles, p)
         /\ Lies(IF p = e THEN 0 ELSE 1)
    /\ UNCHANGED <<kind, since, rival, entryHead, records, read, walks, claim, accused>>

Fork ==
    /\ rival = <<>> /\ Lies(1)
    /\ rival' \in SeqOf(Entries, MaxEntries)
    /\ UNCHANGED <<kind, since, logTree, dataTiles, entryHead, records, read, walks, claim, accused>>

(* The operator turns verify_entries on for a log already entryHead.       *)
VerifyFromNow ==
    /\ kind = "c2sp" /\ "entries" \in EntryAdapters
    /\ kind' = "entries" /\ since' = Len(entryHead)
    /\ UNCHANGED <<logTree, rival, dataTiles, entryHead, records, read, walks, claim, accused, lies>>

-----------------------------------------------------------------------------
(* What the store remembers of the entries.                                *)

(* RecordConstructionAudit, and RecordAudit's trim of the oldest.          *)
RetainedRecords(s) == {i \in s : Cardinality({j \in s : j >= i}) <= MaxRecords}
RecordedEntries(s, to) == IF to > MaxAuditEntries THEN records ELSE RetainedRecords(records \cup s)

(* Variant: the highest index recorded.                                    *)
AuditedThroughHighest == IF records = {} THEN -1 ELSE Max(records)

(* ConstructionAuditedThrough: the end of the unbroken run from zero, or -1.*)
AuditedThrough == Max({-1} \cup {n \in records : 0..n \subseteq records})

-----------------------------------------------------------------------------
(* VerifyConsistency up to its reading of the entries.                     *)

(* sigsum's proof comes from the log and may be broken; c2sp's is computed *)
(* from tiles bound to the new root.  Equal sizes and the empty tree need  *)
(* no proof.                                                               *)
ProofVerdicts(old, new) ==
    CASE old = <<>> -> {"ok"}
      [] kind = "sigsum" /\ Len(old) = Len(new) -> {"ok"}
      [] kind = "sigsum" /\ IsPrefix(old, new) /\ lies < MaxLies -> {"ok", "broken"}
      [] IsPrefix(old, new) -> {"ok"}
      [] OTHER -> {"fork"}

Walk(head, from) == [pc |-> "entries", head |-> head, at |-> from]

(* A round: Fetch, the gate of Process, which never asks an adapter about  *)
(* equal sizes, and VerifyConsistency.  A failed request changes nothing.  *)
EntryRound(new) ==
    /\ ~accused /\ walks["round"] = NoWalk
    /\ Len(new) > Len(entryHead)
    /\ \E v \in ProofVerdicts(entryHead, new) :
         /\ accused' = (v # "ok")
         /\ Lies(IF v = "broken" THEN 1 ELSE 0)
         /\ IF v = "ok" /\ kind = "entries"
            THEN /\ walks' = [walks EXCEPT !["round"] = Walk(new, Len(entryHead))]
                 /\ UNCHANGED entryHead
            ELSE /\ entryHead' = IF v = "ok" THEN new ELSE entryHead
                 /\ UNCHANGED walks
    /\ UNCHANGED <<logVars, records, read, claim>>

(* A round whose head is not larger than the entryHead one.                *)
LaggingEntryRound(new) ==
    /\ ~accused /\ walks["round"] = NoWalk
    /\ Len(new) <= Len(entryHead)
    /\ \E v \in IF Len(new) = Len(entryHead) THEN {IF new = entryHead THEN "ok" ELSE "fork"}
                ELSE ProofVerdicts(new, entryHead) :
         /\ v # "ok" /\ accused' = TRUE
         /\ Lies(IF v = "broken" THEN 1 ELSE 0)
    /\ UNCHANGED <<logVars, entryHead, records, read, walks, claim>>

(* Backfill: from the end of what is recorded, for a log small enough.     *)
BackfillEntries(head) ==
    /\ kind = "entries" /\ walks["backfill"] = NoWalk
    /\ Len(head) \in 1..MaxAuditEntries
    /\ IF AuditedThrough + 1 >= Len(head)
       THEN claim' = Len(head) /\ UNCHANGED walks
       ELSE /\ walks' = [walks EXCEPT !["backfill"] = Walk(head, AuditedThrough + 1)]
            /\ UNCHANGED claim
    /\ UNCHANGED <<logVars, entryHead, records, read, accused, lies>>

-----------------------------------------------------------------------------
(* verifyNewEntries, one data tile a step.                                 *)
LesserOf(a, b) == IF a < b THEN a ELSE b
TileStart(w) == (walks[w].at \div TileWidth) * TileWidth
TileEnd(w) == LesserOf(TileStart(w) + TileWidth, Len(walks[w].head))

(* The first entry of the tile that is not what the tree holds there, or   *)
(* the tile's end.                                                         *)
FirstMismatch(w, tile) ==
    Min({TileEnd(w)} \cup {i \in walks[w].at..TileEnd(w) - 1 :
                             tile[1 + i - TileStart(w)] # walks[w].head[1 + i]})

LongEnough(w, tile) == Len(tile) >= TileEnd(w) - TileStart(w)

ReadTile(w) ==
    /\ walks[w].pc = "entries"
    /\ \E end \in TileStart(w)..Len(dataTiles) :
         LET tile == SubSeq(dataTiles, TileStart(w) + 1, end)
             good == FirstMismatch(w, tile)
             done == good = Len(walks[w].head)
         IN /\ end <= TileStart(w) + TileWidth /\ LongEnough(w, tile)
            /\ records' = RecordedEntries(walks[w].at..good - 1, Len(walks[w].head))
            /\ read' = [i \in 0..MaxEntries - 1 |->
                          IF i \in walks[w].at..good - 1 THEN read[i] \cup {dataTiles[1 + i]} ELSE read[i]]
            /\ accused' = (accused \/ good < TileEnd(w))
            /\ walks' = [walks EXCEPT ![w] = IF good < TileEnd(w) \/ done THEN NoWalk
                                             ELSE Walk(walks[w].head, good)]
            /\ entryHead' = IF w = "round" /\ done THEN walks[w].head ELSE entryHead
            /\ claim' = IF w = "backfill" /\ done THEN Len(walks[w].head) ELSE claim
    /\ UNCHANGED <<logVars, lies>>

(* A tile that cannot be read or is short, a record that cannot be written,*)
(* a crash: the entries before it are on record.                           *)
WalkEnds(w) ==
    /\ walks[w].pc = "entries"
    /\ \E j \in walks[w].at..TileEnd(w) - 1 :
         /\ \A i \in walks[w].at..j - 1 : i < Len(dataTiles) /\ dataTiles[1 + i] = walks[w].head[1 + i]
         /\ records' = RecordedEntries(walks[w].at..j - 1, Len(walks[w].head))
         /\ read' = [i \in 0..MaxEntries - 1 |->
                       IF i \in walks[w].at..j - 1 THEN read[i] \cup {dataTiles[1 + i]} ELSE read[i]]
    /\ walks' = [walks EXCEPT ![w] = NoWalk]
    /\ UNCHANGED <<logVars, entryHead, claim, accused, lies>>

EntryLogsInit ==
    /\ kind \in EntryAdapters /\ since = 0
    /\ logTree = <<>> /\ rival = <<>> /\ dataTiles = <<>> /\ entryHead = <<>>
    /\ records = {} /\ read = [i \in 0..MaxEntries - 1 |-> {}]
    /\ walks = [w \in Walkers |-> NoWalk]
    /\ claim = 0 /\ accused = FALSE /\ lies = 0

EntryLogsNext ==
    \/ \E e \in Entries : Grow(e)
    \/ Fork \/ VerifyFromNow
    \/ \E h \in Signed : EntryRound(h) \/ LaggingEntryRound(h) \/ BackfillEntries(h)
    \/ \E w \in Walkers : ReadTile(w) \/ WalkEnds(w)

EntryLogsSpec == EntryLogsInit /\ [][EntryLogsNext]_entryVars

-----------------------------------------------------------------------------
EntryLogsTypeOK ==
    /\ {logTree, rival, dataTiles, entryHead} \subseteq SeqOf(Entries, MaxEntries)
    /\ records \subseteq 0..MaxEntries - 1 /\ Cardinality(records) <= MaxRecords
    /\ read \in [0..MaxEntries - 1 -> SUBSET Entries]
    /\ claim \in 0..MaxEntries /\ {accused} \subseteq BOOLEAN
    /\ \A w \in Walkers : walks[w] # NoWalk => walks[w].at < Len(walks[w].head)

(* The entryHead head only ever grows into an extension of itself, with    *)
(* every new entry read, whatever two histories the log signs heads of and *)
(* wherever its answers come apart.                                        *)
WitnessedExtends ==
    /\ \/ IsPrefix(entryHead, logTree) \/ IsPrefix(entryHead, rival)
    /\ kind = "entries" => \A i \in since + 1..Len(entryHead) : entryHead[i] \in read[i - 1]

WitnessedOnlyExtends == [][IsPrefix(entryHead, entryHead')]_entryVars

(* A BackfillResult claims entries 0..To; all of them were read, resumed   *)
(* across passes, rounds and crashes as they were (c2sp.go:412, "A higher  *)
(* index with a gap below it would let the unchecked portion be skipped    *)
(* silently").                                                             *)
ClaimsWereRead == \A i \in 0..claim - 1 : read[i] # {}

(* Nobody is accused of what a log with one history, that publishes what   *)
(* it commits to and serves proofs that verify, does (source.go:146,       *)
(* "positive evidence of misbehaviour").                                   *)
AccusedOfALie == accused => lies > 0

(* A log whose entries are verified, across resumed walks, missing tiles   *)
(* and forks: the head only ever extends, every index claimed was read,    *)
(* and an accusation has a lie behind it.                                  *)
EntriesAreWitnessed ==
    [](EntryLogsTypeOK /\ WitnessedExtends /\ ClaimsWereRead /\ AccusedOfALie) /\ WitnessedOnlyExtends
=============================================================================
