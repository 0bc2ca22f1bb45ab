-------------------------- MODULE SafeHarborProofs --------------------------
(***************************************************************************)
(* SafeHarbor's theorems, for all ledgers, threads, intents and bounds.    *)
(*                                                                         *)
(* As long as one ledger at a time serves one call at a time and no write  *)
(* is torn, the verification passes exactly when no record was altered.    *)
(* VerificationIsExact says nothing of the records on their way; Chained   *)
(* adds what a thread holds at each step of log_intent and what an open    *)
(* ledger remembers.                                                       *)
(*                                                                         *)
(* Whoever writes and whatever is torn: FileInv keeps the hashes on the    *)
(* file those of users' intents, from which an alteration is noticed, and  *)
(* TornInv says where a returned entry stands and which lines the torn     *)
(* writes broke.                                                           *)
(***************************************************************************)
EXTENDS SafeHarbor, SequenceTheorems, FiniteSetTheorems, TLAPS

\* A sequence, of whatever.
IsSeq(s) == \E S : s \in Seq(S)

Undisturbed == exclusive /\ torn = 0

Shape ==
    /\ IsSeq(file)
    /\ torn \in Nat /\ exclusive \in BOOLEAN
    /\ altered \subseteq DOMAIN file
    /\ open \subseteq Ledgers
    /\ DOMAIN last_hash = Ledgers
    /\ DOMAIN pc = Threads /\ DOMAIN entry = Threads

\* A line is one entry, which links to the line before it, unless its intent
\* is no longer the one that was hashed.
LineOK(lines, i) ==
    /\ lines[i] = <<lines[i][1]>>
    /\ lines[i][1].intent # Cut
    /\ \E intent \in Intents :
         /\ lines[i][1].record_hash =
              Hash(intent, lines[i][1].prev_hash, PrevHash(lines, i))
         /\ lines[i][1].intent = IF i \in altered THEN Altered ELSE intent

\* The hash of the last line.
End(lines) ==
    IF Len(lines) = 0 THEN Genesis ELSE lines[Len(lines)][1].record_hash

\* Where a thread in log_intent stands with respect to the end of the chain.
CallOK(t) ==
    /\ pc[t] # "idle" => LedgerOf[t] \in open
    /\ pc[t] \in {"built", "hashed"} =>
         /\ entry[t].intent \in Intents
         /\ last_hash[LedgerOf[t]] = End(file)
    /\ pc[t] = "hashed" =>
         entry[t].record_hash =
           Hash(entry[t].intent, entry[t].prev_hash, End(file))
    /\ pc[t] = "written" => entry[t].record_hash = End(file)

Chained ==
    /\ terminated
    /\ Solo
    /\ \A i \in DOMAIN file : LineOK(file, i)
    /\ \A l \in open : Busy = {} => last_hash[l] = End(file)
    /\ \A t \in Threads : CallOK(t)

ChainInv == Shape /\ (Undisturbed => Chained)

-----------------------------------------------------------------------------
LEMMA AppendKeeps ==
  ASSUME NEW s, NEW e, IsSeq(s)
  PROVE  /\ IsSeq(Append(s, e))
         /\ Len(Append(s, e)) = Len(s) + 1 /\ Len(s) \in Nat
         /\ DOMAIN s = 1..Len(s)
         /\ DOMAIN Append(s, e) = 1..(Len(s) + 1)
         /\ \A i \in DOMAIN s : Append(s, e)[i] = s[i]
         /\ Append(s, e)[Len(s) + 1] = e
<1>1. PICK S : s \in Seq(S)
  BY DEF IsSeq
<1>2. s \in Seq(S \cup {e}) /\ e \in S \cup {e}
  BY <1>1
<1>3. Append(s, e) \in Seq(S \cup {e})
  BY <1>2
<1> QED BY <1>1, <1>2, <1>3 DEF IsSeq

LEMMA ExceptKeeps ==
  ASSUME NEW s, NEW e, NEW k \in DOMAIN s, IsSeq(s)
  PROVE  LET r == [s EXCEPT ![k] = e]
         IN  /\ IsSeq(r) /\ Len(r) = Len(s) /\ DOMAIN r = DOMAIN s
             /\ Len(s) \in Nat /\ DOMAIN s = 1..Len(s)
             /\ r[k] = e
             /\ \A i \in DOMAIN s : i # k => r[i] = s[i]
<1> DEFINE r == [s EXCEPT ![k] = e]
<1>1. PICK S : s \in Seq(S)
  BY DEF IsSeq
<1>2. s \in Seq(S \cup {e}) /\ e \in S \cup {e}
  BY <1>1
<1>3. r \in Seq(S \cup {e}) /\ Len(r) = Len(s)
  BY <1>2, ExceptSeq
<1> QED BY <1>1, <1>2, <1>3 DEF IsSeq

\* The constructor finds the end of a chain.
LEMMA LastHashIsEnd ==
  ASSUME IsSeq(file), \A i \in DOMAIN file : LineOK(file, i)
  PROVE  LastHash = End(file)
<1>1. Len(file) \in Nat /\ DOMAIN file = 1..Len(file)
  BY DEF IsSeq
<1>2. CASE Len(file) > 0
  <2>1. LineOK(file, Len(file))
    BY <1>1, <1>2
  <2>2. Len(file[Len(file)]) = 1 /\ file[Len(file)][1].intent # Cut
    BY <2>1 DEF LineOK
  <2> QED BY <1>1, <1>2, <2>2 DEF LastHash, End, Parses
<1>3. CASE Len(file) = 0
  BY <1>3 DEF LastHash, End
<1> QED BY <1>1, <1>2, <1>3

\* A chain verifies exactly if nothing in it was altered.
LEMMA ChainIsExact ==
  ASSUME altered \subseteq DOMAIN file, \A i \in DOMAIN file : LineOK(file, i)
  PROVE  Verifies(file) <=> altered = {}
<1>1. ASSUME NEW i \in DOMAIN file
      PROVE  Parses(file[i]) /\ (Links(file, i) <=> i \notin altered)
  <2>1. PICK intent \in Intents :
          /\ file[i][1].record_hash =
               Hash(intent, file[i][1].prev_hash, PrevHash(file, i))
          /\ file[i][1].intent = IF i \in altered THEN Altered ELSE intent
    BY DEF LineOK
  <2>2. Parses(file[i])
    BY DEF LineOK, Parses
  <2>3. Links(file, i) <=> intent = file[i][1].intent
    BY <2>1 DEF Links, Hash
  <2> QED BY <2>1, <2>2, <2>3, AlteredAssumption
<1> QED BY <1>1 DEF Verifies

\* A record that was hashed from the end of the chain extends it.
LEMMA WriteExtendsChain ==
  ASSUME IsSeq(file), altered \subseteq DOMAIN file,
         \A i \in DOMAIN file : LineOK(file, i),
         NEW e, e.intent \in Intents,
         e.record_hash = Hash(e.intent, e.prev_hash, End(file))
  PROVE  LET lines == Append(file, <<e>>)
         IN  /\ \A i \in DOMAIN lines : LineOK(lines, i)
             /\ End(lines) = e.record_hash
<1> DEFINE lines == Append(file, <<e>>)
<1>1. /\ Len(file) \in Nat /\ DOMAIN file = 1..Len(file)
      /\ DOMAIN lines = 1..(Len(file) + 1) /\ Len(lines) = Len(file) + 1
      /\ \A i \in DOMAIN file : lines[i] = file[i]
      /\ lines[Len(file) + 1] = <<e>>
  BY AppendKeeps
<1> HIDE DEF lines
<1>2. \A i \in DOMAIN file : PrevHash(lines, i) = PrevHash(file, i)
  BY <1>1 DEF PrevHash
<1>3. \A i \in DOMAIN file : LineOK(lines, i)
  BY <1>1, <1>2 DEF LineOK
<1>4. PrevHash(lines, Len(file) + 1) = End(file)
  BY <1>1 DEF PrevHash, End
<1>5. LineOK(lines, Len(file) + 1)
  BY <1>1, <1>4, AlteredAssumption DEF LineOK
<1>6. End(lines) = e.record_hash
  BY <1>1 DEF End
<1> QED BY <1>1, <1>3, <1>5, <1>6 DEF lines

-----------------------------------------------------------------------------
(* The invariant *)

LEMMA ShapeKept == Shape /\ [Next]_vars => Shape'
<1> SUFFICES ASSUME Shape, [Next]_vars PROVE Shape'
  OBVIOUS
<1> USE DEF Shape, fileVars, callVars, historyVars
<1>1. ASSUME NEW pieces, NEW ends, Write(pieces, ends)
      PROVE  IsSeq(file') /\ DOMAIN file \subseteq DOMAIN file'
  <2>1. CASE terminated
    BY <1>1, <2>1, AppendKeeps DEF Write
  <2>2. CASE ~ terminated
    <3>1. CASE Len(file) \in DOMAIN file
      BY <1>1, <2>2, <3>1, ExceptKeeps DEF Write
    <3>2. CASE Len(file) \notin DOMAIN file
      <4>1. file' = file
        BY <1>1, <2>2, <3>2, AppendKeeps DEF Write, IsSeq
      <4> QED BY <4>1
    <3> QED BY <3>1, <3>2
  <2> QED BY <2>1, <2>2
<1>2. ASSUME NEW l \in Ledgers, OpenLedger(l) PROVE Shape'
  BY <1>2 DEF OpenLedger
<1>3. ASSUME NEW t \in Threads, NEW intent \in Intents, BuildRecord(t, intent)
      PROVE  Shape'
  BY <1>3 DEF BuildRecord
<1>4. ASSUME NEW t \in Threads, HashRecord(t) PROVE Shape'
  BY <1>4 DEF HashRecord
<1>5. ASSUME NEW t \in Threads, WriteRecord(t) PROVE Shape'
  BY <1>1, <1>5 DEF WriteRecord
<1>6. ASSUME NEW t \in Threads, NEW piece, WriteTorn(t, piece) PROVE Shape'
  <2>1. IsSeq(file') /\ DOMAIN file \subseteq DOMAIN file'
    BY <1>1, <1>6 DEF WriteTorn
  <2>2. /\ torn' = torn + 1 /\ DOMAIN pc' = Threads
        /\ UNCHANGED <<open, last_hash, entry, altered, exclusive>>
    BY <1>6 DEF WriteTorn
  <2> QED BY <2>1, <2>2
<1>7. ASSUME NEW t \in Threads, Return(t) PROVE Shape'
  BY <1>7 DEF Return
<1>8. ASSUME NEW l \in Ledgers, Exit(l) PROVE Shape'
  BY <1>8 DEF Exit
<1>9. ASSUME NEW i \in DOMAIN file, Alter(i) PROVE Shape'
  BY <1>9, ExceptKeeps DEF Alter
<1>10. CASE UNCHANGED vars
  BY <1>10 DEF vars
<1> QED BY <1>2, <1>3, <1>4, <1>5, <1>6, <1>7, <1>8, <1>9, <1>10
        DEF Next, LogIntent

LEMMA ChainKept == ChainInv /\ [Next]_vars => ChainInv'
<1> SUFFICES ASSUME Shape, Undisturbed => Chained, [Next]_vars, Undisturbed'
             PROVE  Chained'
  BY ShapeKept DEF ChainInv
<1> USE DEF Shape, fileVars, callVars, historyVars
<1>1. Undisturbed
  <2>1. ASSUME NEW t \in Threads, NEW piece, WriteTorn(t, piece)
        PROVE  FALSE
    BY <2>1 DEF WriteTorn, Undisturbed
  <2> QED BY <2>1 DEF Undisturbed, Next, LogIntent, OpenLedger, BuildRecord,
             HashRecord, WriteRecord, Return, Exit, Alter, vars
<1>2. Chained
  BY <1>1
<1>3. Len(file) \in Nat /\ DOMAIN file = 1..Len(file)
  BY DEF IsSeq
<1>4. ASSUME NEW l \in Ledgers, OpenLedger(l) PROVE Chained'
  <2>1. Solo'
    BY <1>4 DEF OpenLedger, Undisturbed
  <2>2. last_hash'[l] = End(file)
    BY <1>2, <1>4, LastHashIsEnd DEF OpenLedger, Chained
  <2>3. open' = {l}
    BY <1>4, <2>1 DEF OpenLedger, Solo
  <2>4. \A t \in Threads : pc[t] = "idle"
    BY <1>2, <1>4, <2>3 DEF OpenLedger, Chained, CallOK
  <2> QED BY <1>2, <1>4, <2>1, <2>2, <2>3, <2>4
          DEF OpenLedger, Chained, CallOK, LineOK, End, Busy
<1>5. ASSUME NEW t \in Threads, NEW intent \in Intents, BuildRecord(t, intent)
      PROVE  Chained'
  <2>1. Solo'
    BY <1>5 DEF BuildRecord, Undisturbed
  <2>2. \A u \in Threads : u # t => pc'[u] = "idle"
    BY <1>5, <2>1 DEF BuildRecord, Solo, Busy
  <2>3. Busy = {}
    BY <1>5, <2>2 DEF BuildRecord, Busy
  <2>4. last_hash[LedgerOf[t]] = End(file)
    BY <1>2, <1>5, <2>3 DEF BuildRecord, Chained
  <2>5. /\ entry'[t].intent = intent /\ pc'[t] = "built"
        /\ UNCHANGED <<open, file, last_hash, terminated, altered>>
        /\ LedgerOf[t] \in open
    BY <1>5 DEF BuildRecord
  <2>6. CallOK(t)'
    BY <2>4, <2>5 DEF CallOK, End
  <2>7. \A u \in Threads : u # t => CallOK(u)'
    BY <2>2 DEF CallOK
  <2>8. t \in Busy'
    BY <2>5 DEF Busy
  <2> QED BY <1>2, <2>1, <2>5, <2>6, <2>7, <2>8 DEF Chained, LineOK
<1>6. ASSUME NEW t \in Threads, HashRecord(t) PROVE Chained'
  <2>1. /\ entry'[t].intent = entry[t].intent
        /\ entry'[t].prev_hash = entry[t].prev_hash
        /\ entry'[t].record_hash = Hash(entry[t].intent, entry[t].prev_hash,
                                        last_hash[LedgerOf[t]])
        /\ pc'[t] = "hashed" /\ pc[t] = "built"
        /\ UNCHANGED <<open, file, last_hash, terminated, altered>>
        /\ \A u \in Threads : u # t => pc'[u] = pc[u] /\ entry'[u] = entry[u]
    BY <1>6 DEF HashRecord
  <2>2. CallOK(t)'
    BY <1>2, <2>1 DEF CallOK, Chained, End
  <2>3. \A u \in Threads : u # t => CallOK(u)'
    BY <1>2, <2>1 DEF CallOK, Chained, End
  <2>4. Busy' = Busy
    BY <2>1 DEF Busy
  <2> QED BY <1>2, <2>1, <2>2, <2>3, <2>4 DEF Chained, LineOK, Solo, End
<1>7. ASSUME NEW t \in Threads, WriteRecord(t) PROVE Chained'
  <2>1. /\ file' = Append(file, <<entry[t]>>) /\ terminated'
        /\ pc'[t] = "written" /\ pc[t] = "hashed"
        /\ UNCHANGED <<open, last_hash, entry, altered>>
        /\ \A u \in Threads : u # t => pc'[u] = pc[u]
    BY <1>2, <1>7 DEF WriteRecord, Write, Chained
  <2>2. /\ entry[t].intent \in Intents
        /\ entry[t].record_hash =
             Hash(entry[t].intent, entry[t].prev_hash, End(file))
    BY <1>2, <2>1 DEF Chained, CallOK
  <2>3. /\ \A i \in DOMAIN file' : LineOK(file', i)
        /\ End(file') = entry[t].record_hash
    BY <1>2, <2>1, <2>2, WriteExtendsChain DEF Chained
  <2>4. Busy = {t} /\ Busy' = {t}
    BY <1>2, <2>1 DEF Chained, Solo, Busy
  <2>5. \A u \in Threads : CallOK(u)'
    BY <1>2, <2>1, <2>3, <2>4 DEF Chained, CallOK, Busy
  <2>6. \A i \in DOMAIN file' : LineOK(file, i)'
    BY <2>1, <2>3 DEF LineOK
  <2> QED BY <1>2, <2>1, <2>4, <2>5, <2>6 DEF Chained, Solo
<1>8. ASSUME NEW t \in Threads, Return(t) PROVE Chained'
  <2>1. /\ pc[t] = "written" /\ pc'[t] = "idle"
        /\ LedgerOf[t] \in open
        /\ last_hash'[LedgerOf[t]] = entry[t].record_hash
        /\ UNCHANGED <<open, file, entry, terminated, altered>>
        /\ \A u \in Threads : u # t => pc'[u] = pc[u]
    BY <1>2, <1>8 DEF Return, Chained, CallOK
  <2>2. Busy = {t} /\ Busy' = {}
    BY <1>2, <2>1 DEF Chained, Solo, Busy
  <2>3. last_hash'[LedgerOf[t]] = End(file)
    BY <1>2, <2>1 DEF Chained, CallOK
  <2>4. open = {LedgerOf[t]}
    BY <1>2, <2>1 DEF Chained, Solo
  <2>5. \A u \in Threads : CallOK(u)'
    BY <2>2 DEF CallOK, Busy
  <2> QED BY <1>2, <2>1, <2>2, <2>3, <2>4, <2>5 DEF Chained, Solo, LineOK, End
<1>9. ASSUME NEW l \in Ledgers, Exit(l) PROVE Chained'
  <2>1. open' = {}
    BY <1>2, <1>9 DEF Exit, Chained, Solo
  <2>2. \A t \in Threads : pc'[t] = "idle"
    BY <1>2, <1>9, <2>1 DEF Exit, Chained, CallOK, Solo
  <2> QED BY <1>2, <1>9, <2>1, <2>2 DEF Exit, Chained, CallOK, Solo, Busy, LineOK
<1>10. ASSUME NEW k \in DOMAIN file, Alter(k) PROVE Chained'
  <2> DEFINE line == <<[intent |-> Altered, prev_hash |-> file[k][1].prev_hash,
                        record_hash |-> file[k][1].record_hash]>>
  <2>1. /\ file' = [file EXCEPT ![k] = line]
        /\ altered' = altered \cup {k} /\ k \notin altered
        /\ UNCHANGED <<terminated, open, last_hash, pc, entry>>
    BY <1>10 DEF Alter
  <2>2. /\ Len(file') = Len(file) /\ DOMAIN file' = DOMAIN file
        /\ file'[k] = line
        /\ \A i \in DOMAIN file : i # k => file'[i] = file[i]
    BY <2>1, ExceptKeeps
  <2>3. \A i \in DOMAIN file : file'[i][1].record_hash = file[i][1].record_hash
    BY <2>2
  <2>4. End(file') = End(file)
    BY <1>3, <2>2, <2>3 DEF End
  <2>5. \A i \in DOMAIN file : PrevHash(file', i) = PrevHash(file, i)
    BY <1>3, <2>3 DEF PrevHash
  <2>6. ASSUME NEW i \in DOMAIN file PROVE LineOK(file, i)'
    <3>1. LineOK(file, i)
      BY <1>2 DEF Chained
    <3>2. CASE i = k
      BY <2>1, <2>2, <2>5, <3>1, <3>2, AlteredAssumption DEF LineOK
    <3>3. CASE i # k
      BY <2>1, <2>2, <2>5, <3>1, <3>3 DEF LineOK
    <3> QED BY <3>2, <3>3
  <2>7. \A t \in Threads : CallOK(t)'
    BY <1>2, <2>1, <2>4 DEF Chained, CallOK
  <2> QED BY <1>2, <2>1, <2>2, <2>4, <2>6, <2>7 DEF Chained, Solo, Busy
<1>11. CASE UNCHANGED vars
  BY <1>2, <1>11 DEF vars, Chained, CallOK, Solo, Busy, LineOK, End
<1>12. ASSUME NEW t \in Threads, NEW piece, WriteTorn(t, piece) PROVE FALSE
  BY <1>1, <1>12 DEF WriteTorn, Undisturbed
<1> QED BY <1>4, <1>5, <1>6, <1>7, <1>8, <1>9, <1>10, <1>11, <1>12
        DEF Next, LogIntent

-----------------------------------------------------------------------------
\* For any number of ledgers that follow one another on a file, of records and
\* of restarts in the middle of log_intent: without torn writes the chain
\* verifies exactly if no record was altered.
THEOREM ExactVerification == Spec => []VerificationIsExact
<1>1. Init => ChainInv
  <2> SUFFICES ASSUME Init PROVE ChainInv
    OBVIOUS
  <2>1. IsSeq(file) /\ DOMAIN file = {} /\ Len(file) = 0
    BY DEF Init, IsSeq
  <2>2. Shape
    BY <2>1 DEF Init, Shape
  <2>3. Chained
    BY <2>1 DEF Init, Chained, CallOK, Solo, Busy
  <2> QED BY <2>2, <2>3 DEF ChainInv
<1>2. ChainInv => VerificationIsExact
  BY ChainIsExact DEF ChainInv, Shape, Undisturbed, Chained, VerificationIsExact
<1> QED BY <1>1, <1>2, ChainKept, PTL DEF Spec

-----------------------------------------------------------------------------
(* What stands in the file, whoever writes and whatever is torn.           *)

\* A hash that log_intent computed, from a user's intent.
Honest(h) == \E intent \in Intents : \E a, b : h = Hash(intent, a, b)

IsEntry(e) ==
    e = [intent |-> e.intent, prev_hash |-> e.prev_hash,
         record_hash |-> e.record_hash]

IsLine(line) ==
    /\ IsSeq(line)
    /\ Len(line) \geq 1
    /\ \A k \in DOMAIN line : Honest(line[k].record_hash)

OnFile(lines, h) ==
    \/ h = Genesis
    \/ \E i \in DOMAIN lines : \E k \in DOMAIN lines[i] :
         lines[i][k].record_hash = h

\* Of an altered record the file holds the new intent and the old hash, as
\* long as no other piece was written on its line.
LinesInv ==
    /\ IsSeq(file)
    /\ terminated \in BOOLEAN
    /\ ~ terminated => Len(file) \geq 1
    /\ \A i \in DOMAIN file : IsLine(file[i])
    /\ altered \subseteq DOMAIN file
    /\ \A i \in altered : Len(file[i]) > 1 \/ file[i][1].intent = Altered

Steps == {"idle", "built", "hashed", "written"}

HeldInv ==
    /\ pc \in [Threads -> Steps]
    /\ \A t \in Threads :
         /\ pc[t] # "idle" => IsEntry(entry[t]) /\ entry[t].intent \in Intents
         /\ pc[t] \in {"hashed", "written"} => Honest(entry[t].record_hash)
         /\ pc[t] = "written" => OnFile(file, entry[t].record_hash)
    /\ \A l \in Ledgers : OnFile(file, last_hash[l])

FileInv == Shape /\ LinesInv /\ HeldInv

\* Writing a piece touches one line: a new one, or the last if it was left
\* without its newline.
Wrote(e, n) ==
    /\ IsSeq(file') /\ Len(file') = n /\ DOMAIN file' = 1..n
    /\ n \in Nat /\ n \geq 1
    /\ DOMAIN file \subseteq 1..n
    /\ \A i \in 1..n : i # n => i \in DOMAIN file /\ file'[i] = file[i]
    /\ terminated => file'[n] = <<e>> /\ n \notin DOMAIN file
    /\ ~ terminated => /\ n \in DOMAIN file /\ n = Len(file)
                       /\ file'[n] = Append(file[n], e)

LEMMA ConcatOne ==
  ASSUME NEW s, NEW e, IsSeq(s)
  PROVE  s \o <<e>> = Append(s, e)
<1>1. PICK S : s \in Seq(S)
  BY DEF IsSeq
<1>2. s \in Seq(S \cup {e}) /\ <<e>> \in Seq(S \cup {e})
  BY <1>1
<1> QED BY <1>2

LEMMA IsSeqFacts ==
  ASSUME NEW s, IsSeq(s)
  PROVE  Len(s) \in Nat /\ DOMAIN s = 1..Len(s)
BY DEF IsSeq

LEMMA OneElement ==
  ASSUME NEW e
  PROVE  /\ IsSeq(<<e>>) /\ Len(<<e>>) = 1
         /\ DOMAIN <<e>> = {1} /\ <<e>>[1] = e
<1>1. <<e>> \in Seq({e}) /\ Len(<<e>>) = 1 /\ <<e>>[1] = e
  OBVIOUS
<1>2. \A k : k \in 1..1 <=> k = 1
  OBVIOUS
<1>3. DOMAIN <<e>> = 1..1
  BY <1>1
<1> QED BY <1>1, <1>2, <1>3 DEF IsSeq

LEMMA Writing ==
  ASSUME LinesInv, NEW e, NEW ends, Write(<<e>>, ends)
  PROVE  \E n : Wrote(e, n)
<1>1. Len(file) \in Nat /\ DOMAIN file = 1..Len(file)
  BY IsSeqFacts DEF LinesInv
<1>2. CASE terminated
  <2>1. file' = Append(file, <<e>>)
    BY <1>2 DEF Write
  <2>2. /\ IsSeq(file') /\ Len(file') = Len(file) + 1
        /\ DOMAIN file' = 1..(Len(file) + 1)
        /\ \A i \in DOMAIN file : file'[i] = file[i]
        /\ file'[Len(file) + 1] = <<e>>
    BY <2>1, AppendKeeps DEF LinesInv
  <2>3. Wrote(e, Len(file) + 1)
    BY <1>1, <1>2, <2>2 DEF Wrote
  <2> QED BY <2>3
<1>3. CASE ~ terminated
  <2> DEFINE n == Len(file)
             line == Append(file[n], e)
  <2>1. n \in DOMAIN file /\ n \geq 1
    BY <1>1, <1>3 DEF LinesInv
  <2>2. file[n] \o <<e>> = line
    BY <2>1, ConcatOne DEF LinesInv, IsLine
  <2>3. file' = [file EXCEPT ![n] = line]
    BY <1>3, <2>2 DEF Write
  <2> HIDE DEF line
  <2>4. /\ IsSeq(file') /\ Len(file') = Len(file) /\ DOMAIN file' = DOMAIN file
        /\ file'[n] = line
        /\ \A i \in DOMAIN file : i # n => file'[i] = file[i]
    BY <2>1, <2>3, ExceptKeeps DEF LinesInv
  <2>5. Wrote(e, n)
    BY <1>1, <1>3, <2>1, <2>4 DEF Wrote, line
  <2> QED BY <2>5
<1> QED BY <1>2, <1>3 DEF LinesInv

LEMMA WrittenLines ==
  ASSUME LinesInv, NEW e, NEW n, Wrote(e, n), Honest(e.record_hash),
         terminated' \in BOOLEAN, altered' = altered
  PROVE  /\ LinesInv'
         /\ OnFile(file', e.record_hash)
         /\ \A h : OnFile(file, h) => OnFile(file', h)
<1>1. Len(file) \in Nat /\ DOMAIN file = 1..Len(file)
  BY IsSeqFacts DEF LinesInv
<1>2. CASE terminated
  <2>1. file'[n] = <<e>> /\ n \notin DOMAIN file
    BY <1>2 DEF Wrote
  <2>2. IsLine(file'[n]) /\ 1 \in DOMAIN file'[n] /\ file'[n][1] = e
    BY <2>1, OneElement DEF IsLine
  <2>3. \A i \in DOMAIN file : i \in DOMAIN file' /\ file'[i] = file[i]
    BY <2>1 DEF Wrote
  <2>4. \A i \in DOMAIN file' : IsLine(file'[i])
    BY <2>2 DEF Wrote, LinesInv
  <2>5. \A i \in altered : Len(file'[i]) > 1 \/ file'[i][1].intent = Altered
    BY <2>3 DEF LinesInv
  <2>6. n \in DOMAIN file'
    BY DEF Wrote
  <2>7. OnFile(file', e.record_hash)
    BY <2>2, <2>6 DEF OnFile
  <2>8. \A h : OnFile(file, h) => OnFile(file', h)
    BY <2>3 DEF OnFile
  <2> QED BY <2>3, <2>4, <2>5, <2>7, <2>8 DEF LinesInv, Wrote
<1>3. CASE ~ terminated
  <2>1. n \in DOMAIN file /\ file'[n] = Append(file[n], e)
    BY <1>3 DEF Wrote
  <2>2. IsLine(file[n])
    BY <2>1 DEF LinesInv
  <2>3. /\ IsSeq(file'[n]) /\ Len(file'[n]) = Len(file[n]) + 1
        /\ Len(file[n]) \in Nat /\ DOMAIN file[n] = 1..Len(file[n])
        /\ DOMAIN file'[n] = 1..(Len(file[n]) + 1)
        /\ \A k \in DOMAIN file[n] : file'[n][k] = file[n][k]
        /\ file'[n][Len(file[n]) + 1] = e
    BY <2>1, <2>2, AppendKeeps DEF IsLine
  <2>4. IsLine(file'[n])
    BY <2>2, <2>3 DEF IsLine
  <2>5. DOMAIN file' = DOMAIN file
    BY <1>1, <2>1 DEF Wrote
  <2>6. \A i \in DOMAIN file : i # n => file'[i] = file[i]
    BY <2>5 DEF Wrote
  <2>7. \A i \in DOMAIN file' : IsLine(file'[i])
    BY <2>4, <2>5, <2>6 DEF LinesInv
  <2>8. \A i \in altered : Len(file'[i]) > 1 \/ file'[i][1].intent = Altered
    BY <2>2, <2>3, <2>6 DEF LinesInv, IsLine
  <2>9. OnFile(file', e.record_hash)
    <3>1. n \in DOMAIN file' /\ Len(file[n]) + 1 \in DOMAIN file'[n]
      BY <2>1, <2>3, <2>5
    <3> QED BY <2>3, <3>1 DEF OnFile
  <2>10. ASSUME NEW h, OnFile(file, h) PROVE OnFile(file', h)
    <3>1. CASE h = Genesis
      BY <3>1 DEF OnFile
    <3>2. ASSUME NEW i \in DOMAIN file, NEW k \in DOMAIN file[i],
                 file[i][k].record_hash = h
          PROVE  i \in DOMAIN file' /\ k \in DOMAIN file'[i]
                 /\ file'[i][k].record_hash = h
      BY <2>3, <2>5, <2>6, <3>2
    <3> QED BY <2>10, <3>1, <3>2 DEF OnFile
  <2> QED BY <2>5, <2>7, <2>8, <2>9, <2>10 DEF LinesInv, Wrote
<1> QED BY <1>2, <1>3 DEF LinesInv

LEMMA LastHashOnFile ==
  ASSUME LinesInv
  PROVE  OnFile(file, LastHash)
<1>1. Len(file) \in Nat /\ DOMAIN file = 1..Len(file)
  BY IsSeqFacts DEF LinesInv
<1>2. CASE Len(file) > 0 /\ Parses(file[Len(file)])
  <2>1. Len(file) \in DOMAIN file
    BY <1>1, <1>2
  <2>2. 1 \in DOMAIN file[Len(file)]
    BY <2>1, IsSeqFacts DEF LinesInv, IsLine
  <2> QED BY <1>2, <2>1, <2>2 DEF LastHash, OnFile
<1>3. CASE ~ (Len(file) > 0 /\ Parses(file[Len(file)]))
  BY <1>3 DEF LastHash, OnFile
<1> QED BY <1>2, <1>3

\* What a change of one record by an outsider leaves of the file.
LEMMA Altering ==
  ASSUME LinesInv, NEW m \in DOMAIN file, Alter(m)
  PROVE  /\ LinesInv'
         /\ DOMAIN file' = DOMAIN file /\ Len(file') = Len(file)
         /\ Len(file[m]) = 1 /\ file[m][1].intent # Cut /\ m \notin altered
         /\ Len(file'[m]) = 1 /\ file'[m][1].intent = Altered
         /\ file'[m][1].record_hash = file[m][1].record_hash
         /\ \A i \in DOMAIN file : i # m => file'[i] = file[i]
         /\ \A h : OnFile(file, h) => OnFile(file', h)
<1> DEFINE line == <<[intent |-> Altered, prev_hash |-> file[m][1].prev_hash,
                      record_hash |-> file[m][1].record_hash]>>
<1>1. /\ file' = [file EXCEPT ![m] = line]
      /\ altered' = altered \cup {m} /\ terminated' = terminated
      /\ m \notin altered /\ Parses(file[m])
  BY DEF Alter, fileVars
<1> HIDE DEF line
<1>2. /\ IsSeq(file') /\ Len(file') = Len(file) /\ DOMAIN file' = DOMAIN file
      /\ file'[m] = line
      /\ \A i \in DOMAIN file : i # m => file'[i] = file[i]
  BY <1>1, ExceptKeeps DEF LinesInv
<1>3. IsLine(file[m]) /\ Len(file[m]) = 1 /\ file[m][1].intent # Cut
  BY <1>1 DEF LinesInv, Parses
<1>4. DOMAIN file[m] = {1}
  <2>1. \A k : k \in 1..1 <=> k = 1
    OBVIOUS
  <2> QED BY <1>3, <2>1, IsSeqFacts DEF IsLine
<1>5. /\ IsSeq(line) /\ Len(line) = 1 /\ DOMAIN line = {1}
      /\ line[1].intent = Altered
      /\ line[1].record_hash = file[m][1].record_hash
  <2> DEFINE e == [intent |-> Altered, prev_hash |-> file[m][1].prev_hash,
                   record_hash |-> file[m][1].record_hash]
  <2>1. line = <<e>> /\ e.intent = Altered /\ e.record_hash = file[m][1].record_hash
    BY DEF line
  <2> HIDE DEF e
  <2> QED BY <2>1, OneElement
<1>6. IsLine(file'[m])
  BY <1>2, <1>3, <1>4, <1>5 DEF IsLine
<1>7. LinesInv'
  BY <1>1, <1>2, <1>5, <1>6 DEF LinesInv
<1>8. ASSUME NEW h, OnFile(file, h) PROVE OnFile(file', h)
  <2>1. CASE h = Genesis
    BY <2>1 DEF OnFile
  <2>2. ASSUME NEW i \in DOMAIN file, NEW k \in DOMAIN file[i],
               file[i][k].record_hash = h
        PROVE  i \in DOMAIN file' /\ k \in DOMAIN file'[i]
               /\ file'[i][k].record_hash = h
    BY <1>2, <1>4, <1>5, <2>2
  <2> QED BY <1>8, <2>1, <2>2 DEF OnFile
<1> QED BY <1>1, <1>2, <1>3, <1>5, <1>7, <1>8

LEMMA FileInit == Init => FileInv
<1> SUFFICES ASSUME Init PROVE FileInv
  OBVIOUS
<1>1. IsSeq(file) /\ DOMAIN file = {} /\ Len(file) = 0
  BY DEF Init, IsSeq
<1>2. Shape
  BY <1>1 DEF Init, Shape
<1>3. LinesInv
  BY <1>1 DEF Init, LinesInv
<1>4. HeldInv
  BY DEF Init, HeldInv, Steps, OnFile
<1> QED BY <1>2, <1>3, <1>4 DEF FileInv

\* The hashes that threads and ledgers hold stay in a file that loses none.
LEMMA HeldKept ==
  ASSUME HeldInv, \A h : OnFile(file, h) => OnFile(file', h),
         UNCHANGED <<entry, last_hash>>, pc' \in [Threads -> Steps],
         \A t \in Threads :
           \/ pc'[t] \in {pc[t], "idle"}
           \/ pc[t] = "hashed" /\ pc'[t] = "written"
              /\ OnFile(file', entry[t].record_hash)
  PROVE  HeldInv'
BY DEF HeldInv, Steps

LEMMA FileKept == FileInv /\ [Next]_vars => FileInv'
<1> SUFFICES ASSUME FileInv, [Next]_vars PROVE LinesInv' /\ HeldInv'
  BY ShapeKept DEF FileInv
<1> USE DEF fileVars, callVars, historyVars
<1>1. LinesInv /\ HeldInv /\ Shape
  BY DEF FileInv
<1>2. ASSUME UNCHANGED <<fileVars, altered>> PROVE LinesInv'
  BY <1>1, <1>2 DEF LinesInv
<1>3. ASSUME NEW l \in Ledgers, OpenLedger(l) PROVE LinesInv' /\ HeldInv'
  <2>1. /\ UNCHANGED <<file, terminated, altered, pc, entry>>
        /\ last_hash' = [last_hash EXCEPT ![l] = LastHash]
    BY <1>3 DEF OpenLedger
  <2>2. OnFile(file, LastHash)
    BY <1>1, LastHashOnFile
  <2>3. \A m \in Ledgers : OnFile(file, last_hash'[m])
    BY <1>1, <2>1, <2>2 DEF HeldInv, Shape
  <2> QED BY <1>1, <1>2, <2>1, <2>3 DEF HeldInv
<1>4. ASSUME NEW t \in Threads, NEW intent \in Intents, BuildRecord(t, intent)
      PROVE  LinesInv' /\ HeldInv'
  <2>1. /\ UNCHANGED <<file, terminated, altered, last_hash>>
        /\ pc' = [pc EXCEPT ![t] = "built"]
        /\ entry' = [entry EXCEPT ![t] =
                       [intent |-> intent, prev_hash |-> last_hash[LedgerOf[t]],
                        record_hash |-> Genesis]]
    BY <1>4 DEF BuildRecord
  <2>2. /\ \A u \in Threads : u # t => pc'[u] = pc[u] /\ entry'[u] = entry[u]
        /\ pc'[t] = "built" /\ IsEntry(entry'[t]) /\ entry'[t].intent = intent
    BY <1>1, <2>1 DEF Shape, IsEntry
  <2>3. pc' \in [Threads -> Steps]
    BY <1>1, <2>1 DEF HeldInv, Steps
  <2> QED BY <1>1, <1>2, <2>1, <2>2, <2>3 DEF HeldInv
<1>5. ASSUME NEW t \in Threads, HashRecord(t) PROVE LinesInv' /\ HeldInv'
  <2> DEFINE h == Hash(entry[t].intent, entry[t].prev_hash, last_hash[LedgerOf[t]])
  <2>1. /\ UNCHANGED <<file, terminated, altered, last_hash>>
        /\ pc' = [pc EXCEPT ![t] = "hashed"] /\ pc[t] = "built"
        /\ entry' = [entry EXCEPT ![t] =
                       [intent |-> entry[t].intent, prev_hash |-> entry[t].prev_hash,
                        record_hash |-> h]]
    BY <1>5 DEF HashRecord
  <2>2. entry[t].intent \in Intents
    BY <1>1, <2>1 DEF HeldInv
  <2>3. Honest(h)
    BY <2>2 DEF Honest
  <2> HIDE DEF h
  <2>4. /\ \A u \in Threads : u # t => pc'[u] = pc[u] /\ entry'[u] = entry[u]
        /\ pc'[t] = "hashed" /\ IsEntry(entry'[t])
        /\ entry'[t].intent = entry[t].intent /\ entry'[t].record_hash = h
    BY <1>1, <2>1 DEF Shape, IsEntry
  <2>5. pc' \in [Threads -> Steps]
    BY <1>1, <2>1 DEF HeldInv, Steps
  <2> QED BY <1>1, <1>2, <2>1, <2>2, <2>3, <2>4, <2>5 DEF HeldInv
<1>6. ASSUME NEW t \in Threads, WriteRecord(t) PROVE LinesInv' /\ HeldInv'
  <2>1. /\ Write(<<entry[t]>>, TRUE) /\ pc[t] = "hashed"
        /\ pc' = [pc EXCEPT ![t] = "written"]
        /\ UNCHANGED <<entry, last_hash, altered>>
    BY <1>6 DEF WriteRecord
  <2>2. PICK n : Wrote(entry[t], n)
    BY <1>1, <2>1, Writing
  <2>3. Honest(entry[t].record_hash)
    BY <1>1, <2>1 DEF HeldInv
  <2>4. terminated' \in BOOLEAN
    BY <2>1 DEF Write
  <2>5. /\ LinesInv' /\ OnFile(file', entry[t].record_hash)
        /\ \A h : OnFile(file, h) => OnFile(file', h)
    BY <1>1, <2>1, <2>2, <2>3, <2>4, WrittenLines
  <2>6. pc' \in [Threads -> Steps]
    BY <1>1, <2>1 DEF HeldInv, Steps
  <2>7. \A u \in Threads : u # t => pc'[u] = pc[u]
    BY <1>1, <2>1 DEF Shape
  <2>8. pc'[t] = "written"
    BY <1>1, <2>1 DEF Shape
  <2> QED BY <1>1, <2>1, <2>5, <2>6, <2>7, <2>8, HeldKept
<1>7. ASSUME NEW t \in Threads, NEW piece \in {entry[t], CutShort(entry[t])},
             WriteTorn(t, piece)
      PROVE  LinesInv' /\ HeldInv'
  <2>1. /\ Write(<<piece>>, FALSE) /\ pc[t] = "hashed"
        /\ pc' = [pc EXCEPT ![t] = "idle"]
        /\ UNCHANGED <<entry, last_hash, altered>>
    BY <1>7 DEF WriteTorn
  <2>2. PICK n : Wrote(piece, n)
    BY <1>1, <2>1, Writing
  <2>3. IsEntry(entry[t]) /\ Honest(entry[t].record_hash)
    BY <1>1, <2>1 DEF HeldInv
  <2>4. CutShort(entry[t]).record_hash = entry[t].record_hash
    BY <2>3 DEF CutShort, IsEntry
  <2>5. Honest(piece.record_hash)
    BY <2>3, <2>4
  <2>6. terminated' \in BOOLEAN
    BY <2>1 DEF Write
  <2>7. /\ LinesInv'
        /\ \A h : OnFile(file, h) => OnFile(file', h)
    BY <1>1, <2>1, <2>2, <2>5, <2>6, WrittenLines
  <2>8. pc' \in [Threads -> Steps]
    BY <1>1, <2>1 DEF HeldInv, Steps
  <2>9. \A u \in Threads : pc'[u] \in {pc[u], "idle"}
    BY <1>1, <2>1 DEF Shape
  <2> QED BY <1>1, <2>1, <2>7, <2>8, <2>9, HeldKept
<1>8. ASSUME NEW t \in Threads, Return(t) PROVE LinesInv' /\ HeldInv'
  <2>1. /\ UNCHANGED <<file, terminated, altered, entry>> /\ pc[t] = "written"
        /\ pc' = [pc EXCEPT ![t] = "idle"]
        /\ last_hash' = [last_hash EXCEPT ![LedgerOf[t]] = entry[t].record_hash]
    BY <1>8 DEF Return
  <2>2. OnFile(file, entry[t].record_hash)
    BY <1>1, <2>1 DEF HeldInv
  <2>3. \A l \in Ledgers : OnFile(file, last_hash'[l])
    BY <1>1, <2>1, <2>2 DEF HeldInv, Shape
  <2>4. pc' \in [Threads -> Steps]
    BY <1>1, <2>1 DEF HeldInv, Steps
  <2>5. \A u \in Threads : pc'[u] \in {pc[u], "idle"}
    BY <1>1, <2>1 DEF Shape
  <2> QED BY <1>1, <1>2, <2>1, <2>3, <2>4, <2>5 DEF HeldInv
<1>9. ASSUME NEW l \in Ledgers, Exit(l) PROVE LinesInv' /\ HeldInv'
  <2>1. /\ UNCHANGED <<file, terminated, altered, entry, last_hash>>
        /\ pc' = [t \in Threads |-> IF LedgerOf[t] = l THEN "idle" ELSE pc[t]]
    BY <1>9 DEF Exit
  <2>2. pc' \in [Threads -> Steps]
    BY <1>1, <2>1 DEF HeldInv, Steps
  <2>3. \A u \in Threads : pc'[u] \in {pc[u], "idle"}
    BY <2>1
  <2> QED BY <1>1, <1>2, <2>1, <2>2, <2>3, HeldKept
<1>10. ASSUME NEW m \in DOMAIN file, Alter(m) PROVE LinesInv' /\ HeldInv'
  <2>1. UNCHANGED <<pc, entry, last_hash>>
    BY <1>10 DEF Alter
  <2>2. LinesInv' /\ \A h : OnFile(file, h) => OnFile(file', h)
    BY <1>1, <1>10, Altering
  <2> QED BY <1>1, <2>1, <2>2, HeldKept DEF HeldInv
<1>11. CASE UNCHANGED vars
  BY <1>1, <1>2, <1>11 DEF vars, HeldInv
<1> QED BY <1>3, <1>4, <1>5, <1>6, <1>7, <1>8, <1>9, <1>10, <1>11
        DEF Next, LogIntent

LEMMA FileSafe == Spec => []FileInv
BY FileInit, FileKept, PTL DEF Spec

LEMMA FileIsTyped == FileInv => TypeOK
<1> SUFFICES ASSUME FileInv PROVE TypeOK
  OBVIOUS
<1>1. Shape /\ LinesInv /\ HeldInv
  BY DEF FileInv
<1>2. \A i \in DOMAIN file : file[i] # <<>>
  BY <1>1 DEF LinesInv, IsLine
<1>3. (~ terminated) => file # <<>>
  BY <1>1 DEF LinesInv
<1>4. \A h : OnFile(file, h) => h \in HashesOnFile
  BY DEF OnFile, HashesOnFile
<1> QED BY <1>1, <1>2, <1>3, <1>4, AlteredAssumption
        DEF TypeOK, Shape, LinesInv, HeldInv, Steps

\* For any number of ledgers, threads, torn writes, restarts and tamperings
\* the file's lines are never empty, and every ledger's last_hash stands in
\* the file.
THEOREM TypeCorrect == Spec => []TypeOK
BY FileSafe, FileIsTyped, PTL

\* An altered record never passes verify_integrity, for any number of writers,
\* torn writes and restarts before and after it: what stands on its line has
\* its old hash, which is a hash of a user's intent, or does not parse.
THEOREM NothingHidesAnAlteration == Spec => []AlteringIsNoticed
<1>1. FileInv => AlteringIsNoticed
  <2> SUFFICES ASSUME FileInv, NEW i \in altered PROVE ~ Verifies(file)
    BY DEF AlteringIsNoticed
  <2>1. i \in DOMAIN file /\ IsLine(file[i])
        /\ (Len(file[i]) > 1 \/ file[i][1].intent = Altered)
    BY DEF FileInv, LinesInv
  <2>2. CASE Len(file[i]) > 1
    BY <2>1, <2>2 DEF Verifies, Parses
  <2>3. CASE Len(file[i]) = 1 /\ file[i][1].intent = Altered
    <3>1. 1 \in DOMAIN file[i]
      BY <2>1, <2>3, IsSeqFacts DEF IsLine
    <3>2. Honest(file[i][1].record_hash)
      BY <2>1, <3>1 DEF IsLine
    <3>3. ~ Links(file, i)
      BY <2>3, <3>2, AlteredAssumption DEF Links, Hash, Honest
    <3> QED BY <2>1, <3>3 DEF Verifies
  <2>4. Len(file[i]) \in Nat /\ Len(file[i]) \geq 1
    BY <2>1, IsSeqFacts DEF IsLine
  <2> QED BY <2>1, <2>2, <2>3, <2>4 DEF Verifies, Parses
<1> QED BY <1>1, FileSafe, PTL

-----------------------------------------------------------------------------
(* Where a returned entry stands, and what the torn writes cost.           *)

\* The lines that a torn write spoiled: more than one piece stands on them,
\* or their newline is missing.
Broken(lines, ends) ==
    {i \in DOMAIN lines : Len(lines[i]) > 1 \/ (i = Len(lines) /\ ~ ends)}

\* An entry that was written whole is the last piece of its line, which was
\* broken before, or it has a line of its own, where it may be altered.
KeptOn(lines, ends, e, i) ==
    /\ i = Len(lines) => ends
    /\ IF i \in Broken(lines, ends)
       THEN lines[i][Len(lines[i])] = e
       ELSE Parses(lines[i]) /\ lines[i][1].record_hash = e.record_hash

Kept(lines, ends, e) == \E i \in DOMAIN lines : KeptOn(lines, ends, e, i)

TornInv ==
    /\ FileInv
    /\ \A e \in returned : Kept(file, terminated, e)
    /\ \A t \in Threads :
         pc[t] = "written" => Kept(file, terminated, entry[t])
    /\ IsFiniteSet(Broken(file, terminated))
    /\ Cardinality(Broken(file, terminated)) \leq torn

LEMMA IsBroken ==
  ASSUME NEW lines, NEW ends, NEW i \in DOMAIN lines
  PROVE  i \in Broken(lines, ends) <=>
           (Len(lines[i]) > 1 \/ (i = Len(lines) /\ ~ ends))
BY Zenon DEF Broken

LEMMA OthersStayBroken ==
  ASSUME LinesInv, NEW e, NEW n, Wrote(e, n), NEW i \in DOMAIN file, i # n
  PROVE  /\ i \in DOMAIN file' /\ file'[i] = file[i]
         /\ i \in Broken(file, terminated) <=> i \in Broken(file', terminated')
<1>1. Len(file) \in Nat /\ DOMAIN file = 1..Len(file)
  BY IsSeqFacts DEF LinesInv
<1>2. i \in DOMAIN file' /\ file'[i] = file[i] /\ Len(file') = n
  BY DEF Wrote
<1>3. ~ terminated => n = Len(file)
  BY DEF Wrote
<1> QED BY <1>1, <1>2, <1>3 DEF Broken

LEMMA WritingKeeps ==
  ASSUME LinesInv, NEW e, NEW n, Wrote(e, n), NEW x, Kept(file, terminated, x)
  PROVE  Kept(file', terminated', x)
<1>1. PICK i \in DOMAIN file : KeptOn(file, terminated, x, i)
  BY DEF Kept
<1>2. i # n
  <2>1. terminated => n \notin DOMAIN file
    BY DEF Wrote
  <2>2. ~ terminated => n = Len(file)
    BY DEF Wrote
  <2> QED BY <1>1, <2>1, <2>2 DEF KeptOn, LinesInv
<1>3. /\ i \in DOMAIN file' /\ file'[i] = file[i]
      /\ i \in Broken(file, terminated) <=> i \in Broken(file', terminated')
  BY <1>2, OthersStayBroken
<1>4. i # Len(file')
  BY <1>2 DEF Wrote
<1>5. KeptOn(file', terminated', x, i)
  BY <1>1, <1>3, <1>4 DEF KeptOn
<1> QED BY <1>3, <1>5 DEF Kept

LEMMA WrittenIsKept ==
  ASSUME LinesInv, NEW e, NEW n, Wrote(e, n), terminated', e.intent # Cut
  PROVE  Kept(file', terminated', e)
<1>1. n \in DOMAIN file' /\ Len(file') = n
  BY DEF Wrote
<1>2. CASE terminated
  <2>1. Len(file'[n]) = 1 /\ file'[n][1] = e
    BY <1>2, OneElement DEF Wrote
  <2>2. n \notin Broken(file', terminated')
    <3>1. ~ (Len(file'[n]) > 1 \/ (n = Len(file') /\ ~ terminated'))
      BY <2>1
    <3> QED BY <1>1, <3>1, IsBroken
  <2>3. KeptOn(file', terminated', e, n)
    BY <2>1, <2>2 DEF KeptOn, Parses
  <2> QED BY <1>1, <2>3 DEF Kept
<1>3. CASE ~ terminated
  <2>1. n \in DOMAIN file /\ file'[n] = Append(file[n], e)
    BY <1>3 DEF Wrote
  <2>2. IsSeq(file[n]) /\ Len(file[n]) \geq 1 /\ Len(file[n]) \in Nat
    BY <2>1, IsSeqFacts DEF LinesInv, IsLine
  <2>3. Len(file'[n]) = Len(file[n]) + 1 /\ file'[n][Len(file[n]) + 1] = e
    BY <2>1, <2>2, AppendKeeps
  <2>4. n \in Broken(file', terminated')
    BY <1>1, <2>2, <2>3 DEF Broken
  <2>5. KeptOn(file', terminated', e, n)
    BY <2>3, <2>4 DEF KeptOn
  <2> QED BY <1>1, <2>5 DEF Kept
<1> QED BY <1>2, <1>3

LEMMA BrokenAfter ==
  ASSUME LinesInv, NEW e, NEW n, Wrote(e, n)
  PROVE  /\ Broken(file', terminated') \subseteq Broken(file, terminated) \cup {n}
         /\ terminated' => Broken(file', terminated') = Broken(file, terminated)
<1>1. Len(file) \in Nat /\ DOMAIN file = 1..Len(file) /\ DOMAIN file' = 1..n
  BY IsSeqFacts DEF LinesInv, Wrote
<1>2. \A i \in 1..n : i # n => i \in DOMAIN file
  BY DEF Wrote
<1>3. \A i \in DOMAIN file : i # n =>
        (i \in Broken(file, terminated) <=> i \in Broken(file', terminated'))
  BY OthersStayBroken
<1>4. Broken(file', terminated') \subseteq DOMAIN file'
      /\ Broken(file, terminated) \subseteq DOMAIN file
  BY DEF Broken
<1>5. ASSUME terminated'
      PROVE  n \in Broken(file, terminated) <=> n \in Broken(file', terminated')
  <2>1. CASE terminated
    <3>1. n \notin DOMAIN file /\ Len(file'[n]) = 1 /\ n \in DOMAIN file'
      BY <2>1, OneElement DEF Wrote
    <3>2. ~ (Len(file'[n]) > 1 \/ (n = Len(file') /\ ~ terminated'))
      BY <1>5, <3>1
    <3>3. n \notin Broken(file', terminated')
      BY <3>1, <3>2, IsBroken
    <3> QED BY <1>4, <3>1, <3>3
  <2>2. CASE ~ terminated
    <3>1. n \in DOMAIN file /\ n = Len(file) /\ file'[n] = Append(file[n], e)
      BY <2>2 DEF Wrote
    <3>2. IsSeq(file[n]) /\ Len(file[n]) \geq 1 /\ Len(file[n]) \in Nat
      BY <3>1, IsSeqFacts DEF LinesInv, IsLine
    <3>3. Len(file'[n]) > 1
      BY <3>1, <3>2, AppendKeeps
    <3>4. n \in DOMAIN file'
      BY <1>1, <3>1 DEF Wrote
    <3> QED BY <2>2, <3>1, <3>3, <3>4 DEF Broken
  <2> QED BY <2>1, <2>2
<1>6. Broken(file', terminated') \subseteq Broken(file, terminated) \cup {n}
  BY <1>1, <1>2, <1>3, <1>4
<1>7. Broken(file, terminated) \subseteq 1..n
  BY <1>4 DEF Wrote
<1>8. ASSUME terminated'
      PROVE  Broken(file', terminated') = Broken(file, terminated)
  <2>1. \A i \in 1..n :
          i \in Broken(file', terminated') <=> i \in Broken(file, terminated)
    BY <1>2, <1>3, <1>5, <1>8
  <2> QED BY <1>1, <1>4, <1>7, <2>1
<1> QED BY <1>6, <1>8

LEMMA AlteringKeeps ==
  ASSUME LinesInv, NEW m \in DOMAIN file, Alter(m)
  PROVE  /\ Broken(file', terminated') = Broken(file, terminated)
         /\ \A x : Kept(file, terminated, x) => Kept(file', terminated', x)
<1>1. /\ DOMAIN file' = DOMAIN file /\ Len(file') = Len(file)
      /\ Len(file[m]) = 1 /\ Len(file'[m]) = 1 /\ file'[m][1].intent = Altered
      /\ file'[m][1].record_hash = file[m][1].record_hash
      /\ \A i \in DOMAIN file : i # m => file'[i] = file[i]
  BY Altering
<1>2. terminated' = terminated
  BY DEF Alter
<1>3. Broken(file', terminated') = Broken(file, terminated)
  BY <1>1, <1>2 DEF Broken
<1>4. ASSUME NEW x, NEW i \in DOMAIN file, KeptOn(file, terminated, x, i)
      PROVE  KeptOn(file', terminated', x, i)
  <2>1. CASE i # m
    BY <1>1, <1>2, <1>3, <1>4, <2>1 DEF KeptOn
  <2>2. CASE i = m
    <3>1. ~ (Len(file[i]) > 1 \/ (i = Len(file) /\ ~ terminated))
      <4>1. ~ (i = Len(file) /\ ~ terminated)
        BY <1>4, Zenon DEF KeptOn
      <4>2. Len(file[i]) = 1
        BY <1>1, <2>2, Zenon
      <4>3. ~ (Len(file[i]) > 1)
        BY <4>2
      <4> QED BY <4>1, <4>3
    <3>2. i \notin Broken(file, terminated)
      BY <3>1, IsBroken
    <3> QED BY <1>1, <1>2, <1>3, <1>4, <2>2, <3>2, AlteredAssumption
            DEF KeptOn, Parses
  <2> QED BY <2>1, <2>2
<1>5. \A x : Kept(file, terminated, x) => Kept(file', terminated', x)
  BY <1>1, <1>4 DEF Kept
<1> QED BY <1>3, <1>5

LEMMA TornInit == Init => TornInv
<1> SUFFICES ASSUME Init PROVE TornInv
  OBVIOUS
<1>1. Broken(file, terminated) = {}
  BY DEF Init, Broken
<1>2. IsFiniteSet({}) /\ Cardinality({}) = 0
  BY FS_EmptySet
<1>3. \A t \in Threads : pc[t] # "written"
  BY DEF Init
<1>4. returned = {} /\ torn = 0
  BY DEF Init
<1>5. 0 \leq 0
  OBVIOUS
<1> QED BY <1>1, <1>2, <1>3, <1>4, <1>5, FileInit DEF TornInv

\* A step that only leaves the file as it is, or one that breaks no line.
LEMMA TornSame ==
  ASSUME TornInv, FileInv',
         Broken(file', terminated') = Broken(file, terminated),
         torn' = torn,
         \A x : Kept(file, terminated, x) => Kept(file', terminated', x),
         \A x \in returned' : x \in returned \/ Kept(file', terminated', x),
         \A t \in Threads : pc'[t] = "written" =>
           \/ pc[t] = "written" /\ entry'[t] = entry[t]
           \/ Kept(file', terminated', entry'[t])
  PROVE  TornInv'
<1>1. \A x \in returned' : Kept(file', terminated', x)
  BY DEF TornInv
<1>2. \A t \in Threads : pc'[t] = "written" => Kept(file', terminated', entry'[t])
  BY DEF TornInv
<1>3. /\ IsFiniteSet(Broken(file', terminated'))
      /\ Cardinality(Broken(file', terminated')) \leq torn'
  BY DEF TornInv
<1> QED BY <1>1, <1>2, <1>3 DEF TornInv

LEMMA TornKept == TornInv /\ [Next]_vars => TornInv'
<1> SUFFICES ASSUME TornInv, [Next]_vars PROVE TornInv'
  OBVIOUS
<1> USE DEF fileVars, callVars, historyVars
<1>1. /\ FileInv' /\ LinesInv /\ HeldInv /\ Shape
  BY FileKept DEF TornInv, FileInv
<1>2. ASSUME UNCHANGED <<fileVars, torn>>,
             \A x \in returned' : x \in returned \/ Kept(file, terminated, x),
             \A t \in Threads : pc'[t] = "written" =>
               pc[t] = "written" /\ entry'[t] = entry[t]
      PROVE  TornInv'
  BY <1>1, <1>2, TornSame
<1>3. ASSUME NEW l \in Ledgers, OpenLedger(l) PROVE TornInv'
  BY <1>2, <1>3 DEF OpenLedger
<1>4. ASSUME NEW t \in Threads, NEW intent \in Intents, BuildRecord(t, intent)
      PROVE  TornInv'
  <2>1. \A u \in Threads : pc'[u] = "written" =>
          pc[u] = "written" /\ entry'[u] = entry[u]
    BY <1>1, <1>4 DEF BuildRecord, Shape
  <2> QED BY <1>2, <1>4, <2>1 DEF BuildRecord
<1>5. ASSUME NEW t \in Threads, HashRecord(t) PROVE TornInv'
  <2>1. \A u \in Threads : pc'[u] = "written" =>
          pc[u] = "written" /\ entry'[u] = entry[u]
    BY <1>1, <1>5 DEF HashRecord, Shape
  <2> QED BY <1>2, <1>5, <2>1 DEF HashRecord
<1>6. ASSUME NEW t \in Threads, WriteRecord(t) PROVE TornInv'
  <2>1. /\ Write(<<entry[t]>>, TRUE) /\ pc[t] = "hashed"
        /\ pc' = [pc EXCEPT ![t] = "written"]
        /\ UNCHANGED <<entry, returned, torn>>
    BY <1>6 DEF WriteRecord
  <2>2. PICK n : Wrote(entry[t], n)
    BY <1>1, <2>1, Writing
  <2>3. entry[t].intent # Cut
    BY <1>1, <2>1, AlteredAssumption DEF HeldInv
  <2>4. terminated'
    BY <2>1 DEF Write
  <2>5. Kept(file', terminated', entry[t])
    BY <1>1, <2>2, <2>3, <2>4, WrittenIsKept
  <2>6. \A x : Kept(file, terminated, x) => Kept(file', terminated', x)
    BY <1>1, <2>2, WritingKeeps
  <2>7. Broken(file', terminated') = Broken(file, terminated)
    BY <1>1, <2>2, <2>4, BrokenAfter
  <2>8. \A u \in Threads : u # t => pc'[u] = pc[u]
    BY <1>1, <2>1 DEF Shape
  <2> QED BY <1>1, <2>1, <2>5, <2>6, <2>7, <2>8, TornSame
<1>7. ASSUME NEW t \in Threads, NEW piece, WriteTorn(t, piece) PROVE TornInv'
  <2>1. /\ Write(<<piece>>, FALSE)
        /\ pc' = [pc EXCEPT ![t] = "idle"]
        /\ UNCHANGED <<entry, returned>> /\ torn' = torn + 1
    BY <1>7 DEF WriteTorn
  <2>2. PICK n : Wrote(piece, n)
    BY <1>1, <2>1, Writing
  <2>3. \A x : Kept(file, terminated, x) => Kept(file', terminated', x)
    BY <1>1, <2>2, WritingKeeps
  <2> DEFINE B == Broken(file, terminated)
             C == Broken(file', terminated')
  <2>4. C \subseteq B \cup {n}
    BY <1>1, <2>2, BrokenAfter
  <2>5. IsFiniteSet(B) /\ Cardinality(B) \leq torn /\ torn \in Nat
    BY <1>1 DEF TornInv, Shape
  <2> HIDE DEF B, C
  <2>6. /\ IsFiniteSet(B \cup {n}) /\ Cardinality(B) \in Nat
        /\ Cardinality(B \cup {n}) = IF n \in B THEN Cardinality(B)
                                                ELSE Cardinality(B) + 1
    BY <2>5, FS_AddElement, FS_CardinalityType
  <2>7. /\ IsFiniteSet(C) /\ Cardinality(C) \leq Cardinality(B \cup {n})
    BY <2>4, <2>6, FS_Subset
  <2>8. Cardinality(C) \in Nat
    BY <2>7, FS_CardinalityType
  <2>9. Cardinality(C) \leq torn'
    BY <2>1, <2>5, <2>6, <2>7, <2>8
  <2>10. \A u \in Threads : pc'[u] = "written" => pc[u] = "written"
    BY <1>1, <2>1 DEF Shape
  <2>11. \A x \in returned' : Kept(file', terminated', x)
    BY <2>1, <2>3 DEF TornInv
  <2>12. \A u \in Threads :
           pc'[u] = "written" => Kept(file', terminated', entry'[u])
    BY <2>1, <2>3, <2>10 DEF TornInv
  <2> QED BY <1>1, <2>7, <2>9, <2>11, <2>12 DEF TornInv, C
<1>8. ASSUME NEW t \in Threads, Return(t) PROVE TornInv'
  <2>1. Kept(file, terminated, entry[t])
    BY <1>8 DEF Return, TornInv
  <2>2. \A u \in Threads : pc'[u] = "written" => pc[u] = "written"
    BY <1>1, <1>8 DEF Return, Shape
  <2>3. UNCHANGED <<file, terminated, torn, entry>>
    BY <1>8 DEF Return
  <2>4. \A x \in returned' : x \in returned \/ Kept(file, terminated, x)
    BY <1>8, <2>1 DEF Return
  <2> QED BY <1>2, <2>2, <2>3, <2>4
<1>9. ASSUME NEW l \in Ledgers, Exit(l) PROVE TornInv'
  BY <1>2, <1>9 DEF Exit
<1>10. ASSUME NEW m \in DOMAIN file, Alter(m) PROVE TornInv'
  <2>1. UNCHANGED <<pc, entry, returned, torn>>
    BY <1>10 DEF Alter
  <2>2. /\ Broken(file', terminated') = Broken(file, terminated)
        /\ \A x : Kept(file, terminated, x) => Kept(file', terminated', x)
    BY <1>1, <1>10, AlteringKeeps
  <2> QED BY <1>1, <2>1, <2>2, TornSame
<1>11. CASE UNCHANGED vars
  BY <1>2, <1>11 DEF vars
<1> QED BY <1>3, <1>4, <1>5, <1>6, <1>7, <1>8, <1>9, <1>10, <1>11
        DEF Next, LogIntent

\* Every torn write costs at most one record whose log_intent returned, for
\* any number of ledgers, threads and torn writes: what cannot be read back is
\* the last piece of a broken line, and each torn write breaks at most one.
THEOREM TornWritesCostOneRecordEach == Spec => []TornWriteCostsOneRecord
<1>1. TornInv => TornWriteCostsOneRecord
  <2> SUFFICES ASSUME TornInv PROVE TornWriteCostsOneRecord
    OBVIOUS
  <2> DEFINE B == Broken(file, terminated)
             Last(i) == file[i][Len(file[i])]
             f == [i \in B |-> Last(i)]
             T == {Last(i) : i \in B}
             U == {e \in returned : ~ Readable(e)}
  <2>1. IsFiniteSet(B) /\ Cardinality(B) \leq torn /\ torn \in Nat
    BY DEF TornInv, FileInv, Shape
  <2>2. ASSUME NEW e \in returned, ~ Readable(e) PROVE e \in T
    <3>1. PICK i \in DOMAIN file : KeptOn(file, terminated, e, i)
      BY DEF TornInv, Kept
    <3>2. i \in B
      BY <2>2, <3>1 DEF KeptOn, Readable
    <3>3. e = Last(i)
      BY <3>1, <3>2 DEF KeptOn
    <3> QED BY <3>2, <3>3
  <2>3. U \in SUBSET T
    BY <2>2
  <2>4. f \in Surjection(B, T)
    BY Zenon DEF Surjection
  <2> HIDE DEF B, T, U, f
  <2>5. IsFiniteSet(T) /\ Cardinality(T) \leq Cardinality(B)
    BY <2>1, <2>4, FS_Surjection
  <2>6. IsFiniteSet(U) /\ Cardinality(U) \leq Cardinality(T)
    BY <2>3, <2>5, FS_Subset
  <2>7. Cardinality(B) \in Nat /\ Cardinality(T) \in Nat /\ Cardinality(U) \in Nat
    BY <2>1, <2>5, <2>6, FS_CardinalityType
  <2>8. Cardinality(U) \leq torn
    BY <2>1, <2>5, <2>6, <2>7
  <2> QED BY <2>8 DEF TornWriteCostsOneRecord, U
<1> QED BY <1>1, TornInit, TornKept, PTL DEF Spec
====
