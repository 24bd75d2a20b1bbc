------------------------------ MODULE LogLists ------------------------------
(***************************************************************************)
(* Logs learned from published lists: the parser (src/internal/loglist/    *)
(* parse.go), the fetcher (fetch.go), the registry the push handler looks  *)
(* logs up in (registry.go), the store's add-only record of them           *)
(* (src/internal/store/pushlogs.go), the monitor that starts polling those *)
(* that can be polled (monitor.go), and the start of all of them           *)
(* (src/cmd/kt-witness/witnessnet.go).                                     *)
(***************************************************************************)
EXTENDS Integers, Sequences, FiniteSets, SequencesExt

CONSTANTS LogOrigins, LogKeys, Lists,
          NoKey,
          NameOf,          \* the key name a vkey spells, an origin
          Verifiable,      \* keys note.NewVerifier takes
          Nameable,        \* origins that spell a public URL
          Configurations,  \* [static: origin -> key, all: the origins of cfg.Logs]
          MaxListed,       \* bound: entries of a list
          MaxListFaults    \* bound: restarts, failed reads and writes

ASSUME LogListsAssumption ==
    /\ MaxListed \in Nat
    /\ NoKey \notin LogKeys /\ Verifiable \subseteq LogKeys /\ Nameable \subseteq LogOrigins
    /\ NameOf \in [LogKeys -> LogOrigins]
    /\ \A c \in Configurations : \A o \in LogOrigins : c.static[o] # NoKey => o \in c.all
    /\ [static |-> [o \in LogOrigins |-> NoKey], all |-> {}] \in Configurations

VARIABLES config,      \* the configuration the process was started with
          pushLogs,    \* the store's push_logs bucket: origin -> vkey
          discovered,  \* the registry's discovered logs
          mentions,    \* which lists name an origin
          loaded,      \* the fetcher's own Load has succeeded
          fetcher,     \* where Fetcher.Run is
          probes,      \* discovered logs the monitor is still to probe
          polled,      \* the monitor's sources: origin -> the key they pin
          vouched,     \* keys a checkpoint of the origin was ever taken under
          listFaults

listVars == <<config, pushLogs, discovered, mentions, loaded, fetcher,
              probes, polled, vouched, listFaults>>

ListEntry == [key: LogKeys, origin: LogOrigins]
ListFault(happens) ==
    IF happens THEN listFaults < MaxListFaults /\ listFaults' = listFaults + 1
    ELSE UNCHANGED listFaults

-----------------------------------------------------------------------------
(* The format: header, then per log vkey, an optional origin, qpd, contact.*)
Line(kw, is) == [kw |-> kw, is |-> is]
Blank == Line("blank", "")
Header == Line("header", "")

(* An entry, its origin on a line of its own or left to the key's name.    *)
Opening(e, named) ==
    <<Line("vkey", e.key)>> \o (IF named THEN <<Line("origin", e.origin)>> ELSE <<>>)
Written(e, named) == Opening(e, named) \o <<Line("qpd", ""), Line("contact", "")>>
Spelled(es, named) ==
    LET text[n \in 0 .. Len(es)] ==
            IF n = 0 THEN <<Header>> ELSE text[n - 1] \o Written(es[n], n \in named)
    IN text[Len(es)]
Rendered(es) == Spelled(es, {i \in DOMAIN es : es[i].origin # NameOf[es[i].key]})

NoEntry == [key |-> NoKey, origin |-> ""]
RefusedText == [ok |-> FALSE, header |-> FALSE, out |-> <<>>, cur |-> NoEntry, want |-> "vkey"]
Unread == [RefusedText EXCEPT !.ok = TRUE]
Listed(out, o) == \E i \in DOMAIN out : out[i].origin = o

(* parser.line: want names the line the entry needs next.                  *)
ReadLine(p, l) ==
    IF ~p.ok \/ l = Blank THEN p
    ELSE CASE ~p.header /\ l = Header -> [p EXCEPT !.header = TRUE]
           [] p.header /\ p.want = "vkey" /\ l.kw = "vkey" ->
                [p EXCEPT !.cur = [key |-> l.is, origin |-> NameOf[l.is]], !.want = "origin-or-qpd"]
           [] p.header /\ p.want = "origin-or-qpd" /\ l.kw = "origin" ->
                [p EXCEPT !.cur.origin = l.is, !.want = "qpd"]
           [] p.header /\ p.want \in {"origin-or-qpd", "qpd"} /\ l.kw = "qpd" ->
                [p EXCEPT !.want = "contact"]
           [] p.header /\ p.want = "contact" /\ l.kw = "contact" /\ ~Listed(p.out, p.cur.origin) ->
                [p EXCEPT !.out = Append(@, p.cur), !.cur = NoEntry, !.want = "vkey"]
           [] OTHER -> RefusedText

(* Parse: all of a list or nothing of it.                                  *)
Parse(text) ==
    LET read[n \in 0 .. Len(text)] ==
            IF n = 0 THEN Unread ELSE ReadLine(read[n - 1], text[n])
        p == read[Len(text)]
    IN [ok |-> p.ok /\ p.header /\ p.cur = NoEntry, entries |-> p.out]

(* What a publisher's tooling may serve: a list with one line lost, doubled*)
(* or blanked, or the lists of two entries about one origin.               *)
Garbled(t) ==
    {t} \cup {RemoveAt(t, i) : i \in DOMAIN t} \cup {InsertAt(t, i, t[i]) : i \in DOMAIN t}
        \cup {ReplaceAt(t, i, Blank) : i \in DOMAIN t}
Served == UNION {Garbled(Rendered(es)) : es \in SeqOf(ListEntry, MaxListed)}

-----------------------------------------------------------------------------
(* The registry.                                                           *)
IsStatic(o) == config.static[o] # NoKey
Lookup(o) == IF IsStatic(o) THEN config.static[o] ELSE discovered[o]
Logs == {o \in LogOrigins : Lookup(o) # NoKey}
NoKeys == [o \in LogOrigins |-> NoKey]

(* registry.add: a discovered log is never replaced.                       *)
RegistryAdd(o, k) ==
    IF IsStatic(o) \/ discovered[o] # NoKey THEN discovered
    ELSE [discovered EXCEPT ![o] = k]

(* Registry.Load: every stored log whose key still builds a verifier.      *)
Load(static) ==
    [o \in LogOrigins |-> IF static[o] = NoKey /\ discovered[o] = NoKey /\ pushLogs[o] \in Verifiable
                       THEN pushLogs[o] ELSE discovered[o]]

-----------------------------------------------------------------------------
FetcherRests == [pc |-> "resting"]

(* Fetcher.Run: Load once more, then every list in turn.                   *)
LoadAgain ==
    /\ fetcher.pc = "starting"
    /\ \E fails \in BOOLEAN :
         /\ ListFault(fails)
         /\ loaded' = ~fails
         /\ discovered' = IF fails THEN discovered ELSE Load(config.static)
    /\ fetcher' = FetcherRests
    /\ UNCHANGED <<config, pushLogs, mentions, probes, polled, vouched>>

Download ==
    /\ fetcher = FetcherRests
    /\ \E url \in Lists, text \in Served :
         /\ Parse(text).ok
         /\ fetcher' = [pc |-> "applying", url |-> url, text |-> text,
                        todo |-> Parse(text).entries]
    /\ UNCHANGED <<config, pushLogs, discovered, mentions, loaded, probes, polled, vouched, listFaults>>

FetcherAt(pc, todo) == [pc |-> pc, url |-> fetcher.url, todo |-> todo]
NextEntry == FetcherAt("applying", Tail(fetcher.todo))
Current == Head(fetcher.todo)
Applying == fetcher.pc = "applying" /\ fetcher.todo # <<>>

(* apply, the entries nothing is recorded of: configured, known, or under  *)
(* a key we cannot verify, whose place stays open.                         *)
SkipEntry ==
    /\ Applying
    /\ \/ IsStatic(Current.origin) \/ Lookup(Current.origin) # NoKey
       \/ Current.key \notin Verifiable
    /\ mentions' = [mentions EXCEPT ![Current.origin] = @ \cup {fetcher.url}]
    /\ fetcher' = NextEntry
    /\ UNCHANGED <<config, pushLogs, discovered, loaded, probes, polled, vouched, listFaults>>

(* Variant: AddPushLog writes the entry whatever the bucket holds.         *)
AddPushLogAnyway ==
    [stored |-> TRUE, logs |-> [pushLogs EXCEPT ![Current.origin] = Current.key]]

(* AddPushLog: the test and the write are one transaction.                 *)
AddPushLog ==
    IF pushLogs[Current.origin] # NoKey THEN [stored |-> FALSE, logs |-> pushLogs]
    ELSE [stored |-> TRUE, logs |-> [pushLogs EXCEPT ![Current.origin] = Current.key]]

(* apply, an entry that is new to the registry.                            *)
StoreEntry ==
    /\ Applying
    /\ Lookup(Current.origin) = NoKey /\ Current.key \in Verifiable
    /\ mentions' = [mentions EXCEPT ![Current.origin] = @ \cup {fetcher.url}]
    /\ \E fails \in BOOLEAN :
         /\ ListFault(fails)
         /\ pushLogs' = IF fails THEN pushLogs ELSE AddPushLog.logs
         /\ fetcher' = IF ~fails /\ AddPushLog.stored THEN FetcherAt("stored", fetcher.todo)
                       ELSE NextEntry
    /\ UNCHANGED <<config, discovered, loaded, probes, polled, vouched>>

RegisterEntry ==
    /\ fetcher.pc = "stored"
    /\ discovered' = RegistryAdd(Current.origin, Current.key)
    /\ fetcher' = NextEntry
    /\ UNCHANGED <<config, pushLogs, mentions, loaded, probes, polled, vouched, listFaults>>

ListApplied ==
    /\ fetcher.pc = "applying" /\ fetcher.todo = <<>>
    /\ fetcher' = FetcherRests
    /\ UNCHANGED <<config, pushLogs, discovered, mentions, loaded, probes, polled, vouched, listFaults>>

-----------------------------------------------------------------------------
(* ProbeOnce: the discovered logs that are not polled.                     *)
Probeable == {o \in Nameable \cap Logs :
                ~IsStatic(o) /\ o \notin config.all /\ polled[o] = NoKey}

ProbePass ==
    /\ probes = {} /\ Probeable # {}
    /\ probes' = Probeable
    /\ UNCHANGED <<config, pushLogs, discovered, mentions, loaded, fetcher, polled, vouched, listFaults>>

(* probe: whoever answers at the URL signed with some key; the source takes*)
(* the one the log was discovered with, and tiles behind a root that is    *)
(* not the empty tree's.                                                   *)
Probe(o) ==
    /\ o \in probes
    /\ probes' = probes \ {o}
    /\ \E signer \in LogKeys, tiles \in BOOLEAN :
         IF signer = Lookup(o) /\ tiles
         THEN /\ polled' = [polled EXCEPT ![o] = signer]
              /\ vouched' = [vouched EXCEPT ![o] = @ \cup {signer}]
         ELSE UNCHANGED <<polled, vouched>>
    /\ UNCHANGED <<config, pushLogs, discovered, mentions, loaded, fetcher, listFaults>>

(* push.go serve: a checkpoint of o that opens under the key looked up.    *)
TakePush(o) ==
    /\ o \in Logs /\ ~IsStatic(o)
    /\ vouched' = [vouched EXCEPT ![o] = @ \cup {Lookup(o)}]
    /\ UNCHANGED <<config, pushLogs, discovered, mentions, loaded, fetcher, probes, polled, listFaults>>

(* The process starts again, from the store and maybe another              *)
(* configuration; its first Load may fail, which is only logged.           *)
ListRestart ==
    /\ ListFault(TRUE)
    /\ config' \in Configurations
    /\ \E fails \in BOOLEAN :
         discovered' = [o \in LogOrigins |->
             IF ~fails /\ config'.static[o] = NoKey /\ pushLogs[o] \in Verifiable
             THEN pushLogs[o] ELSE NoKey]
    /\ mentions' = [o \in LogOrigins |-> {}]
    /\ loaded' = FALSE /\ fetcher' = [pc |-> "starting"]
    /\ probes' = {} /\ polled' = NoKeys
    /\ UNCHANGED <<pushLogs, vouched>>

LogListsInit ==
    /\ config = [static |-> NoKeys, all |-> {}]
    /\ pushLogs = NoKeys /\ discovered = NoKeys
    /\ mentions = [o \in LogOrigins |-> {}]
    /\ loaded = FALSE /\ fetcher = [pc |-> "starting"]
    /\ probes = {} /\ polled = NoKeys
    /\ vouched = [o \in LogOrigins |-> {}]
    /\ listFaults = 0

Fetching == LoadAgain \/ Download \/ SkipEntry \/ StoreEntry \/ RegisterEntry \/ ListApplied
LogListsNext ==
    \/ Fetching
    \/ ProbePass
    \/ \E o \in LogOrigins : Probe(o) \/ TakePush(o)
    \/ ListRestart

LogListsSpec == LogListsInit /\ [][LogListsNext]_listVars

-----------------------------------------------------------------------------
LogListsTypeOK ==
    /\ config \in Configurations
    /\ {pushLogs, discovered, polled} \subseteq [LogOrigins -> LogKeys \cup {NoKey}]
    /\ mentions \in [LogOrigins -> SUBSET Lists] /\ vouched \in [LogOrigins -> SUBSET LogKeys]
    /\ loaded \in BOOLEAN /\ probes \subseteq Nameable
    /\ fetcher.pc \in {"starting", "resting", "applying", "stored"}

(* A discovered log is only ever witnessed under the first key it was      *)
(* learned with, whatever two lists say, across restarts and a Load that   *)
(* fails (pushlogs.go: "The first key we learn for an origin is the key we *)
(* keep").                                                                 *)
KeysArePinned == \A o \in LogOrigins : Cardinality(vouched[o]) <= 1

(* Once the fetcher's Load has succeeded, every log in the store is known  *)
(* to the registry, but for the one being registered: a crash between the  *)
(* two writes loses nothing (fetch.go Run, "cannot leave stored logs out   *)
(* of the registry").                                                      *)
StoredIsKnown ==
    loaded => \A o \in LogOrigins : pushLogs[o] # NoKey /\ Lookup(o) = NoKey =>
                                    fetcher.pc = "stored" /\ Current.origin = o

(* A list is understood whole: what is applied spells the very lines that  *)
(* were served, no line guessed or passed over, every origin either given  *)
(* or that of its key, no origin listed twice (parse.go: "applying a       *)
(* half-understood list could admit a log under a mis-parsed origin that,  *)
(* being add-only, we could never undo").                                  *)
NonBlank(text) ==
    LET kept[n \in 0 .. Len(text)] ==
            IF n = 0 THEN <<>>
            ELSE IF text[n] = Blank THEN kept[n - 1] ELSE Append(kept[n - 1], text[n])
    IN kept[Len(text)]
SaysWhole(es, text) ==
    /\ \A i, j \in DOMAIN es : es[i].origin = es[j].origin => i = j
    /\ \E named \in SUBSET DOMAIN es :
         /\ NonBlank(text) = Spelled(es, named)
         /\ \A i \in DOMAIN es \ named : es[i].origin = NameOf[es[i].key]
ParsedWhole ==
    "text" \in DOMAIN fetcher => SaysWhole(Parse(fetcher.text).entries, fetcher.text)

(* The monitor never polls an origin the operator configured, under the    *)
(* registry or beside it, and polls under the key the registry holds       *)
(* (monitor.go: "promoting it here would witness one origin from two       *)
(* sources in the same round").                                            *)
PolledOnce ==
    \A o \in LogOrigins : polled[o] # NoKey => o \notin config.all /\ polled[o] = Lookup(o)

(* The list of logs, across restarts, failed downloads and pages cut short:*)
(* one key per origin for good, what is stored is known again, a list is   *)
(* taken whole or not at all, and a log is polled by one source only.      *)
ListsAreKept == LogListsTypeOK /\ KeysArePinned /\ StoredIsKnown /\ ParsedWhole /\ PolledOnce
=============================================================================
