----------------------------- MODULE SafeHarbor -----------------------------
(***************************************************************************)
(* SafeHarborLedger (humanist_core/safe_harbor.py): a hash-chained log of  *)
(* intents in one JSON-lines file.  Every process that opens the file has  *)
(* a ledger of its own, which remembers the hash of the last record it     *)
(* wrote; a process may have several threads, and may stop at any point.   *)
(* Nothing locks the file or the ledger.  log_intent is four steps: the    *)
(* record's fields, its hash, the write and the update of last_hash.       *)
(*                                                                         *)
(*   line   the pieces written between two newlines: entries, whole or *)
(*          cut short                                                      *)
(*   entry  [intent, prev_hash, record_hash]                               *)
(*                                                                         *)
(* SHA-256 is taken to be injective: a hash is what was hashed.            *)
(***************************************************************************)
EXTENDS Integers, FiniteSets, Sequences

CONSTANTS
    Ledgers,            \* SafeHarborLedger objects, each in a process
    Threads,            \* the threads that call log_intent
    LedgerOf,           \* the ledger each thread uses
    Intents,            \* what the users intend
    Genesis,            \* GENESIS_HASH
    Cut,                \* in place of an intent: a torn, unreadable record
    Altered,            \* what tampering puts in place of an intent
    MaxCalls,           \* bound: calls of log_intent
    MaxTorn,            \* bound: writes that fail half way
    MaxExits,           \* bound: processes that end
    MaxAltered          \* bound: records changed behind the ledger's back

ASSUME OwnerAssumption == LedgerOf \in [Threads -> Ledgers]

ASSUME AlteredAssumption == Altered \notin Intents /\ Cut \notin Intents \cup {Altered}

VARIABLES
    file,               \* the lines of the file
    terminated,         \* does the last one end with a newline
    open,               \* the ledgers that exist
    last_hash,          \* per ledger
    pc, entry,          \* per thread: where in log_intent, and what it logs
    called,             \* how often log_intent was called
    returned,           \* the entries whose log_intent returned
    torn,               \* how many writes failed half way
    exits,              \* how many processes ended
    altered,            \* the lines that were tampered with
    exclusive           \* so far one ledger at a time, with one call at a time

fileVars == <<file, terminated>>
callVars == <<pc, entry, called, returned>>
historyVars == <<torn, exits, altered, exclusive>>
vars == <<fileVars, open, last_hash, callVars, historyVars>>

-----------------------------------------------------------------------------
(* The file *)

Hash(intent, prev_hash, prev) == <<intent, prev_hash, prev>>

Parses(line) == Len(line) = 1 /\ line[1].intent # Cut

\* The hash that _get_last_hash finds: anything unreadable counts as no file.
LastHash ==
    IF Len(file) > 0 /\ Parses(file[Len(file)])
    THEN file[Len(file)][1].record_hash
    ELSE Genesis

\* What the line before line i hands to the verification of line i.
PrevHash(lines, i) == IF i = 1 THEN Genesis ELSE lines[i - 1][1].record_hash

Mutant_ContentsUnhashed(lines, i) ==
    \E intent \in Intents \cup {Altered} :
      lines[i][1].record_hash =
        Hash(intent, lines[i][1].prev_hash, PrevHash(lines, i))

Links(lines, i) ==
    lines[i][1].record_hash =
      Hash(lines[i][1].intent, lines[i][1].prev_hash, PrevHash(lines, i))

\* verify_integrity returns True; otherwise it stops at the first line that
\* does not link, or raises at the first that does not parse.
Verifies(lines) ==
    \A i \in DOMAIN lines : Parses(lines[i]) /\ Links(lines, i)

Mutant_NoNewline(pieces, ends) ==
    IF file = <<>> THEN file' = <<pieces>> /\ terminated' = ends
    ELSE /\ file' = [file EXCEPT ![Len(file)] = @ \o pieces]
         /\ terminated' = ends

\* Appending text: it continues a line that was left without its newline.
Write(pieces, ends) ==
    /\ file' = IF terminated THEN Append(file, pieces)
               ELSE [file EXCEPT ![Len(file)] = @ \o pieces]
    /\ terminated' = ends

-----------------------------------------------------------------------------
Busy == {t \in Threads : pc[t] # "idle"}

Solo == /\ \A l, m \in open : l = m
        /\ \A t, u \in Busy : t = u

NoEntry == [intent |-> Cut, prev_hash |-> Genesis, record_hash |-> Genesis]

Init ==
    /\ file = <<>> /\ terminated = TRUE
    /\ open = {}
    /\ last_hash = [l \in Ledgers |-> Genesis]
    /\ pc = [t \in Threads |-> "idle"]
    /\ entry = [t \in Threads |-> NoEntry]
    /\ called = 0 /\ returned = {}
    /\ torn = 0 /\ exits = 0 /\ altered = {}
    /\ exclusive = TRUE

\* __init__: the end of the chain is read once.
OpenLedger(l) ==
    /\ l \notin open
    /\ open' = open \cup {l}
    /\ last_hash' = [last_hash EXCEPT ![l] = LastHash]
    /\ UNCHANGED <<fileVars, callVars, torn, exits, altered>>
    /\ exclusive' = (exclusive /\ Solo')

\* log_intent: record_data, with the first reading of last_hash.
BuildRecord(t, intent) ==
    /\ LedgerOf[t] \in open
    /\ pc[t] = "idle"
    /\ called < MaxCalls
    /\ pc' = [pc EXCEPT ![t] = "built"]
    /\ entry' = [entry EXCEPT ![t] =
                   [intent |-> intent, prev_hash |-> last_hash[LedgerOf[t]],
                    record_hash |-> Genesis]]
    /\ called' = called + 1
    /\ UNCHANGED <<fileVars, open, last_hash, returned, torn, exits, altered>>
    /\ exclusive' = (exclusive /\ Solo')

Mutant_HashKeptBeforeWrite(t) ==
    /\ pc[t] = "built"
    /\ pc' = [pc EXCEPT ![t] = "hashed"]
    /\ entry' = [entry EXCEPT ![t].record_hash =
                   Hash(entry[t].intent, entry[t].prev_hash,
                        last_hash[LedgerOf[t]])]
    /\ last_hash' = [last_hash EXCEPT ![LedgerOf[t]] = entry'[t].record_hash]
    /\ UNCHANGED <<fileVars, open, called, returned, historyVars>>

\* record_hash, with the second reading of last_hash.
HashRecord(t) ==
    /\ pc[t] = "built"
    /\ pc' = [pc EXCEPT ![t] = "hashed"]
    /\ entry' = [entry EXCEPT ![t] =
                   [intent |-> entry[t].intent, prev_hash |-> entry[t].prev_hash,
                    record_hash |-> Hash(entry[t].intent, entry[t].prev_hash,
                                         last_hash[LedgerOf[t]])]]
    /\ UNCHANGED <<fileVars, open, last_hash, called, returned, historyVars>>

WriteRecord(t) ==
    /\ pc[t] = "hashed"
    /\ pc' = [pc EXCEPT ![t] = "written"]
    /\ Write(<<entry[t]>>, TRUE)
    /\ UNCHANGED <<open, last_hash, entry, called, returned, historyVars>>

CutShort(e) == [e EXCEPT !.intent = Cut]

\* The write fails half way, before or just at the newline (a full disk, a
\* signal), and log_intent raises.
WriteTorn(t, piece) ==
    /\ pc[t] = "hashed"
    /\ torn < MaxTorn
    /\ pc' = [pc EXCEPT ![t] = "idle"]
    /\ Write(<<piece>>, FALSE)
    /\ torn' = torn + 1
    /\ UNCHANGED <<open, last_hash, entry, called, returned, exits, altered,
                   exclusive>>

Mutant_HashNotKept(t) ==
    /\ pc[t] = "written"
    /\ pc' = [pc EXCEPT ![t] = "idle"]
    /\ returned' = returned \cup {entry[t]}
    /\ UNCHANGED <<fileVars, open, last_hash, entry, called, historyVars>>

\* last_hash is updated and log_intent returns.
Return(t) ==
    /\ pc[t] = "written"
    /\ pc' = [pc EXCEPT ![t] = "idle"]
    /\ last_hash' = [last_hash EXCEPT ![LedgerOf[t]] = entry[t].record_hash]
    /\ returned' = returned \cup {entry[t]}
    /\ UNCHANGED <<fileVars, open, entry, called, historyVars>>

\* The process ends, in the middle of its threads' calls or not.
Exit(l) ==
    /\ l \in open
    /\ exits < MaxExits
    /\ open' = open \ {l}
    /\ pc' = [t \in Threads |-> IF LedgerOf[t] = l THEN "idle" ELSE pc[t]]
    /\ exits' = exits + 1
    /\ UNCHANGED <<fileVars, last_hash, entry, called, returned, torn, altered,
                   exclusive>>

\* Someone edits a record and leaves its hash alone.
Alter(i) ==
    /\ Cardinality(altered) < MaxAltered
    /\ i \notin altered
    /\ Parses(file[i])
    /\ file' = [file EXCEPT ![i] = <<[intent |-> Altered,
                                      prev_hash |-> @[1].prev_hash,
                                      record_hash |-> @[1].record_hash]>>]
    /\ altered' = altered \cup {i}
    /\ UNCHANGED <<terminated, open, last_hash, callVars, torn, exits, exclusive>>

LogIntent(t) ==
    \/ \E intent \in Intents : BuildRecord(t, intent)
    \/ HashRecord(t)
    \/ WriteRecord(t)
    \/ \E piece \in {entry[t], CutShort(entry[t])} : WriteTorn(t, piece)
    \/ Return(t)

Next ==
    \/ \E l \in Ledgers : OpenLedger(l)
    \/ \E t \in Threads : LogIntent(t)
    \/ \E l \in Ledgers : Exit(l)
    \/ \E i \in DOMAIN file : Alter(i)

Spec == Init /\ [][Next]_vars

-----------------------------------------------------------------------------
(* Properties *)

\* The hashes of what stands in the file.
HashesOnFile ==
    {Genesis} \cup UNION {{file[i][k].record_hash : k \in DOMAIN file[i]} :
                            i \in DOMAIN file}

\* No line is empty, and a ledger's last_hash is always one that stands in
\* the file, also after torn writes and restarts.
TypeOK ==
    /\ \A i \in DOMAIN file : file[i] # <<>>
    /\ terminated \in BOOLEAN /\ exclusive \in BOOLEAN
    /\ (~ terminated) => file # <<>>
    /\ open \subseteq Ledgers
    /\ pc \in [Threads -> {"idle", "built", "hashed", "written"}]
    /\ \A t \in Threads : pc[t] # "idle" => entry[t].intent # Cut
    /\ \A l \in Ledgers : last_hash[l] \in HashesOnFile
    /\ altered \subseteq DOMAIN file

\* One ledger at a time with one call at a time, and no torn write: then the
\* verification is exact.  It passes, also with a record on its way and after
\* a process that ended between the write and the update of last_hash, unless
\* a record was altered (safe_harbor.py:86-97).
VerificationIsExact ==
    exclusive /\ torn = 0 => (Verifies(file) <=> altered = {})

\* An altered record never passes, whatever was written before or after it
\* and by whomever (tests/test_safe_harbor.py:18-32).
AlteringIsNoticed == altered # {} => ~ Verifies(file)

\* An entry is readable if some line consists of it, altered or not.
Readable(e) ==
    \E i \in DOMAIN file :
      Parses(file[i]) /\ file[i][1].record_hash = e.record_hash

\* A record whose log_intent returned can be read back; every torn write
\* costs at most one of them, the one whose line it spoiled, however many
\* ledgers write (safe_harbor.py:80-84).
TornWriteCostsOneRecord == Cardinality({e \in returned : ~ Readable(e)}) <= torn

-----------------------------------------------------------------------------
(* What the documents say and the code does not do. *)

\* safe_harbor.py:87 "Verifies that the hash-chain has not been tampered with."
AlarmMeansTampering == torn = 0 /\ ~ Verifies(file) => altered # {}
=============================================================================
