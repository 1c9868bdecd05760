----------------------------- MODULE TaxiProofs -----------------------------
(***************************************************************************)
(* Proofs about Taxi for any set of pids, any timers and any bounds: its    *)
(* types, that the dispatcher's table keeps every living driver, when the   *)
(* last loop of main can block, and what the table says of the drivers.     *)
(***************************************************************************)
EXTENDS Taxi, TLAPS, SequenceTheorems

\* The table lists drivers that were forked, each once, and every living one
\* as long as the dispatcher runs.
TableInv ==
    /\ IsInjective(drivers)
    /\ \A d \in Table : proc[d] # "unborn"
    /\ Running => \A d \in Pids : Alive(d) => d \in Table

\* What select reported is still there, until it is read: by wait_for_response,
\* which drained records, or by the scan, which has passed the entries below i.
Ready(d) == respPipe[d] # <<>> \/ proc[d] = "dead"

ReadyInv ==
    /\ \A d \in ready : proc[d] # "unborn"
    /\ pc \in {"command", "wait", "waitscan"} => \A d \in ready \ drained : Ready(d)
    /\ pc = "scan" => \A k \in i .. Len(drivers) :
                        drivers[k] \in ready \ drained => Ready(drivers[k])

IInv == TypeOK /\ TableInv /\ ReadyInv

-----------------------------------------------------------------------------
(* Sequences.                                                               *)

LEMMA RemoveProperties ==
    ASSUME NEW S, NEW s \in Seq(S), NEW k \in 1 .. Len(s)
    PROVE  /\ Removed(s, k) \in Seq(S)
           /\ Len(Removed(s, k)) = Len(s) - 1
           /\ \A j \in 1 .. Len(s) - 1 : Removed(s, k)[j] = IF j < k THEN s[j] ELSE s[j + 1]
<1> DEFINE before == SubSeq(s, 1, k - 1)
           after == SubSeq(s, k + 1, Len(s))
<1>0. Len(s) \in Nat /\ k \in Nat /\ \A j \in 1 .. Len(s) : s[j] \in S
  BY LenProperties, ElementOfSeq
<1>1. /\ before \in Seq(S) /\ Len(before) = k - 1
      /\ \A j \in 1 .. k - 1 : before[j] = s[j]
  <2>1. \A j \in 1 .. k - 1 : s[j] \in S
    BY <1>0
  <2>2. /\ before \in Seq(S)
        /\ Len(before) = IF 1 <= k - 1 THEN (k - 1) - 1 + 1 ELSE 0
        /\ \A j \in 1 .. (k - 1) - 1 + 1 : before[j] = s[1 + j - 1]
    BY <1>0, <2>1, SubSeqProperties
  <2> QED
    BY <1>0, <2>2
<1>2. /\ after \in Seq(S) /\ Len(after) = Len(s) - k
      /\ \A j \in 1 .. Len(s) - k : after[j] = s[k + j]
  <2>1. \A j \in k + 1 .. Len(s) : s[j] \in S
    BY <1>0
  <2>2. /\ after \in Seq(S)
        /\ Len(after) = IF k + 1 <= Len(s) THEN Len(s) - (k + 1) + 1 ELSE 0
        /\ \A j \in 1 .. Len(s) - (k + 1) + 1 : after[j] = s[(k + 1) + j - 1]
    BY <1>0, <2>1, SubSeqProperties
  <2>3. \A j \in 1 .. Len(s) - k : (k + 1) + j - 1 = k + j
    BY <1>0
  <2> QED
    BY <1>0, <2>2, <2>3
<1> HIDE DEF before, after
<1>3. /\ before \o after \in Seq(S)
      /\ Len(before \o after) = Len(s) - 1
      /\ \A j \in 1 .. Len(s) - 1 : (before \o after)[j] =
              IF j <= k - 1 THEN before[j] ELSE after[j - (k - 1)]
  <2>1. /\ before \o after \in Seq(S)
        /\ Len(before \o after) = Len(before) + Len(after)
        /\ \A j \in 1 .. Len(before) + Len(after) : (before \o after)[j] =
              IF j <= Len(before) THEN before[j] ELSE after[j - Len(before)]
    BY <1>1, <1>2, ConcatProperties
  <2>2. Len(before) = k - 1 /\ Len(before) + Len(after) = Len(s) - 1
    BY <1>0, <1>1, <1>2
  <2> QED
    BY <2>1, <2>2
<1>4. \A j \in 1 .. Len(s) - 1 : (before \o after)[j] = IF j < k THEN s[j] ELSE s[j + 1]
  <2> SUFFICES ASSUME NEW j \in 1 .. Len(s) - 1
               PROVE  (before \o after)[j] = IF j < k THEN s[j] ELSE s[j + 1]
    OBVIOUS
  <2>1. CASE j < k
    <3>1. j <= k - 1 /\ j \in 1 .. k - 1
      BY <1>0, <2>1
    <3> QED
      BY <1>1, <1>3, <2>1, <3>1
  <2>2. CASE ~(j < k)
    <3>1. PICK m \in 1 .. Len(s) - k : m = j - (k - 1) /\ k + m = j + 1
      BY <1>0, <2>2
    <3>2. (before \o after)[j] = after[m]
      BY <1>0, <1>3, <2>2, <3>1
    <3>3. after[m] = s[j + 1]
      BY <1>2, <3>1
    <3>4. ~(j < k)
      BY <1>0, <2>2
    <3> QED
      BY <3>2, <3>3, <3>4
  <2> QED
    BY <1>0, <2>1, <2>2
<1> QED
  BY <1>3, <1>4 DEF Removed, RemoveAt, before, after

\* Removing position k of a table without duplicates removes that pid only.
LEMMA RemoveFromTable ==
    ASSUME NEW s \in Seq(Pids), IsInjective(s), NEW k \in 1 .. Len(s)
    PROVE  /\ IsInjective(Removed(s, k))
           /\ Range(Removed(s, k)) = Range(s) \ {s[k]}
<1> DEFINE r == Removed(s, k)
<1>1. /\ r \in Seq(Pids) /\ Len(r) = Len(s) - 1 /\ Len(s) \in Nat
      /\ \A j \in 1 .. Len(s) - 1 : r[j] = IF j < k THEN s[j] ELSE s[j + 1]
      /\ DOMAIN r = 1 .. Len(s) - 1 /\ DOMAIN s = 1 .. Len(s)
  BY RemoveProperties, LenProperties
<1> HIDE DEF r
<1>2. \A a, b \in 1 .. Len(s) : s[a] = s[b] => a = b
  BY <1>1 DEF IsInjective
<1>3. IsInjective(r)
  BY <1>1, <1>2 DEF IsInjective
<1>4. \A x \in Range(r) : x \in Range(s) /\ x # s[k]
  <2> SUFFICES ASSUME NEW j \in 1 .. Len(s) - 1
               PROVE  r[j] \in Range(s) /\ r[j] # s[k]
    BY <1>1 DEF Range
  <2>1. CASE j < k
    <3>1. j \in 1 .. Len(s) /\ j # k /\ r[j] = s[j]
      BY <1>1, <2>1
    <3> QED
      BY <1>1, <1>2, <3>1 DEF Range
  <2>2. CASE ~(j < k)
    <3>1. j + 1 \in 1 .. Len(s) /\ j + 1 # k /\ r[j] = s[j + 1]
      BY <1>1, <2>2
    <3> QED
      BY <1>1, <1>2, <3>1 DEF Range
  <2> QED
    BY <2>1, <2>2
<1>5. \A x \in Range(s) : x # s[k] => x \in Range(r)
  <2> SUFFICES ASSUME NEW j \in 1 .. Len(s), s[j] # s[k]
               PROVE  s[j] \in Range(r)
    BY <1>1 DEF Range
  <2>1. CASE j < k
    <3>1. j \in 1 .. Len(s) - 1 /\ r[j] = s[j]
      BY <1>1, <2>1
    <3> QED
      BY <1>1, <3>1 DEF Range
  <2>2. CASE ~(j < k)
    <3>1. j # k
      OBVIOUS
    <3>2. j - 1 \in 1 .. Len(s) - 1 /\ ~(j - 1 < k) /\ (j - 1) + 1 = j
      BY <1>1, <2>2, <3>1
    <3>3. r[j - 1] = s[j]
      BY <1>1, <3>2
    <3> QED
      BY <1>1, <3>2, <3>3 DEF Range
  <2> QED
    BY <2>1, <2>2
<1> QED
  BY <1>3, <1>4, <1>5 DEF r

\* Appending a pid that is not listed.
LEMMA AppendToTable ==
    ASSUME NEW s \in Seq(Pids), IsInjective(s), NEW d \in Pids, d \notin Range(s)
    PROVE  /\ IsInjective(Append(s, d))
           /\ Range(Append(s, d)) = Range(s) \cup {d}
<1> DEFINE r == Append(s, d)
<1>1. /\ r \in Seq(Pids) /\ Len(r) = Len(s) + 1 /\ Len(s) \in Nat
      /\ \A j \in 1 .. Len(s) : r[j] = s[j]
      /\ r[Len(s) + 1] = d
      /\ DOMAIN r = 1 .. Len(s) + 1 /\ DOMAIN s = 1 .. Len(s)
  BY AppendProperties, LenProperties
<1> HIDE DEF r
<1>2. \A j \in 1 .. Len(s) + 1 : j \in 1 .. Len(s) \/ j = Len(s) + 1
  BY <1>1
<1>3. \A j \in 1 .. Len(s) : s[j] # d
  BY <1>1 DEF Range
<1>4. IsInjective(r)
  BY <1>1, <1>2, <1>3 DEF IsInjective
<1>5. \A x \in Range(r) : x \in Range(s) \cup {d}
  BY <1>1, <1>2 DEF Range
<1>6. \A x \in Range(s) : x \in Range(r)
  BY <1>1 DEF Range
<1>7. d \in Range(r)
  BY <1>1 DEF Range
<1> QED
  BY <1>4, <1>5, <1>6, <1>7 DEF r

-----------------------------------------------------------------------------
(* Types.                                                                   *)

LEMMA TypeInit == Init => TypeOK
  BY BoundsAssumption DEF Init, TypeOK, Statuses, Free

LEMMA LineTypes ==
    /\ Notice \in Lines
    /\ \A word \in {"OK", "Busy", "Available"}, rem \in Int : Answer(word, rem) \in Lines
    /\ Free \in Statuses
    /\ \A t \in Int : BusyUntil(t) \in Statuses
  BY DEF Notice, Answer, Lines, Free, BusyUntil, Statuses

LEMMA HeardType ==
    ASSUME NEW entry \in Statuses, NEW m \in Lines, NEW t \in Int
    PROVE  Heard(entry, m, t) \in Statuses
<1>1. m.rem \in Int /\ m.word \in {"OK", "Busy", "Available"} /\ t + m.rem \in Int
  BY DEF Lines
<1>2. [entry EXCEPT !.busy = FALSE] \in Statuses
  BY DEF Statuses
<1> QED
  BY <1>1, <1>2, LineTypes DEF Heard

LEMMA PipeTypes ==
    ASSUME TypeOK, NEW d \in Pids
    PROVE  /\ respPipe[d] \in Seq(Lines) /\ cmdPipe[d] \in Seq(Commands)
           /\ respPipe[d] # <<>> => Head(respPipe[d]) \in Lines /\ Tail(respPipe[d]) \in Seq(Lines)
           /\ cmdPipe[d] # <<>> => Head(cmdPipe[d]) \in Commands /\ Tail(cmdPipe[d]) \in Seq(Commands)
  BY DEF TypeOK

LEMMA SayType ==
    ASSUME TypeOK, NEW d \in Pids, NEW m \in Lines, NEW loc \in {"top", "select"},
           Say(d, m, loc)
    PROVE  /\ proc' \in [Pids -> {"unborn", "top", "select", "dead"}]
           /\ respPipe' \in [Pids -> Seq(Lines)]
<1>1. Append(respPipe[d], m) \in Seq(Lines)
  BY PipeTypes
<1>2. [respPipe EXCEPT ![d] = Append(@, m)] \in [Pids -> Seq(Lines)]
  BY <1>1 DEF TypeOK
<1>3. /\ [proc EXCEPT ![d] = loc] \in [Pids -> {"unborn", "top", "select", "dead"}]
      /\ [proc EXCEPT ![d] = "dead"] \in [Pids -> {"unborn", "top", "select", "dead"}]
  BY DEF TypeOK
<1> QED
  BY <1>2, <1>3 DEF Say, TypeOK

LEMMA TableType == TypeOK => Table \subseteq Pids /\ Readable \subseteq Pids
  BY RangeOfSeq DEF TypeOK, Table, Readable

LEMMA RemainingType ==
    ASSUME TypeOK, NEW d \in Pids
    PROVE  Remaining(d) \in Int
  BY DEF Remaining, TypeOK, Statuses

LEMMA TypeStep == TypeOK /\ [Next]_vars => TypeOK'
<1> SUFFICES ASSUME TypeOK, [Next]_vars PROVE TypeOK'
  OBVIOUS
<1> USE BoundsAssumption, TimersAssumption DEF dispatcherVars
<1>1. ASSUME NEW d \in Pids, DriverTop(d) PROVE TypeOK'
  <2>1. CASE Overdue(d)
    <3>1. Say(d, Notice, "select") /\ own' = [own EXCEPT ![d].busy = FALSE]
      BY <1>1, <2>1 DEF DriverTop
    <3>2. own' \in [Pids -> Statuses]
      BY <3>1 DEF TypeOK, Statuses
    <3> QED
      BY <1>1, <3>1, <3>2, SayType, LineTypes DEF DriverTop, TypeOK
  <2> QED
    BY <1>1, <2>1 DEF DriverTop, TypeOK
<1>2. ASSUME NEW d \in Pids, DriverTimeout(d) PROVE TypeOK'
  BY <1>2 DEF DriverTimeout, TypeOK
<1>3. ASSUME NEW d \in Pids, DriverCommand(d) PROVE TypeOK'
  <2> DEFINE c == Head(cmdPipe[d])
  <2>1. c \in Commands /\ Tail(cmdPipe[d]) \in Seq(Commands)
    BY <1>3, PipeTypes DEF DriverCommand
  <2>2. c.timer \in Int
    BY <2>1 DEF Commands
  <2>3. AnswerTo(d, c) \in Lines
    BY RemainingType, LineTypes DEF AnswerTo
  <2>4. /\ own' = [own EXCEPT ![d] = IF c.verb = "task" /\ ~@.busy
                                     THEN BusyUntil(now + c.timer) ELSE @]
        /\ Say(d, AnswerTo(d, c), "top")
        /\ cmdPipe' = [cmdPipe EXCEPT ![d] = Tail(@)]
        /\ UNCHANGED <<dispatcherVars, heirs, now, cmds, kills>>
    BY <1>3 DEF DriverCommand
  <2> HIDE DEF c
  <2>5. own' \in [Pids -> Statuses]
    <3>1. now + c.timer \in Int
      BY <2>2 DEF TypeOK
    <3> QED
      BY <2>4, <3>1, LineTypes DEF TypeOK
  <2>6. cmdPipe' \in [Pids -> Seq(Commands)]
    BY <2>1, <2>4 DEF TypeOK
  <2>7. /\ proc' \in [Pids -> {"unborn", "top", "select", "dead"}]
        /\ respPipe' \in [Pids -> Seq(Lines)]
    BY <2>3, <2>4, SayType
  <2> QED
    BY <2>4, <2>5, <2>6, <2>7 DEF TypeOK
<1>4. ASSUME NEW d \in Pids, DriverEof(d) PROVE TypeOK'
  BY <1>4 DEF DriverEof, TypeOK
<1>5. CASE SelectStdin
  BY <1>5, TableType DEF SelectStdin, TypeOK
<1>6. CASE SelectDrivers
  BY <1>6, TableType DEF SelectDrivers, TypeOK
<1>7. ASSUME NEW d \in Pids, CreateDriver(d) PROVE TypeOK'
  <2>1. /\ drivers' \in Seq(Pids) /\ Len(drivers') \in Nat
        /\ view' \in [Pids -> Statuses]
        /\ proc' \in [Pids -> {"unborn", "top", "select", "dead"}]
        /\ heirs' \in [Pids -> SUBSET Pids]
    BY <1>7, LineTypes, AppendProperties DEF CreateDriver, TypeOK
  <2>2. cmds' \in 0 .. MaxCommands
    BY <1>7 DEF CreateDriver, Typed, TypeOK
  <2> QED
    BY <1>7, <2>1, <2>2 DEF CreateDriver, Typed, TypeOK
<1>8. ASSUME NEW d \in Pids, NEW t \in Timers \cup {0}, NEW v \in {"task", "status"},
             SendCommand(d, v, t)
      PROVE  TypeOK'
  <2> DEFINE k == CHOOSE n \in DOMAIN drivers : drivers[n] = d
             c == [verb |-> v, timer |-> t]
             r == [verb |-> v, pid |-> d, timer |-> t, idx |-> k]
  <2>1. cmds' \in 0 .. MaxCommands
    BY <1>8 DEF SendCommand, Typed, TypeOK
  <2>2. k \in Nat \ {0}
    <3>1. \E n \in DOMAIN drivers : drivers[n] = d
      BY <1>8 DEF SendCommand, Table, Range
    <3>2. DOMAIN drivers = 1 .. Len(drivers) /\ Len(drivers) \in Nat
      BY LenProperties DEF TypeOK
    <3> QED
      BY <3>1, <3>2
  <2> HIDE DEF k
  <2>3. t \in Int
    OBVIOUS
  <2>4. r \in Requests
    BY <2>2, <2>3 DEF Requests
  <2>5. c \in Commands
    BY <2>3 DEF Commands
  <2>6. Append(cmdPipe[d], c) \in Seq(Commands)
    BY <2>5, PipeTypes, AppendProperties
  <2>7. CASE proc[d] = "dead"
    BY <1>8, <2>1, <2>7 DEF SendCommand, TypeOK
  <2>8. CASE proc[d] # "dead"
    <3>1. cmdPipe' = [cmdPipe EXCEPT ![d] = Append(@, c)] /\ req' = r /\ pc' = "wait"
      BY <1>8, <2>8 DEF SendCommand, k
    <3>2. cmdPipe' \in [Pids -> Seq(Commands)]
      BY <2>6, <3>1 DEF TypeOK
    <3> HIDE DEF r
    <3> QED
      BY <1>8, <2>1, <2>4, <3>1, <3>2 DEF SendCommand, TypeOK
  <2> QED
    BY <2>7, <2>8
<1>9. CASE GetDrivers
  <2>1. cmds' \in 0 .. MaxCommands
    BY <1>9 DEF GetDrivers, Typed, TypeOK
  <2>2. \A d \in Pids : [view[d] EXCEPT !.busy = FALSE] \in Statuses /\ view[d] \in Statuses
    <3>1. \A d \in Pids : view[d] \in Statuses
      BY DEF TypeOK
    <3>2. \A s \in Statuses : [s EXCEPT !.busy = FALSE] \in Statuses
      BY DEF Statuses
    <3> QED
      BY <3>1, <3>2
  <2>3. view' \in [Pids -> Statuses]
    BY <1>9, <2>2 DEF GetDrivers
  <2>4. Len(drivers) \in Nat
    BY LenProperties DEF TypeOK
  <2> QED
    BY <1>9, <2>1, <2>3, <2>4 DEF GetDrivers, TypeOK
<1>10. CASE OtherCommand
  BY <1>10 DEF OtherCommand, Typed, TypeOK
<1>11. CASE EndOfInput
  BY <1>11 DEF EndOfInput, TypeOK
<1>12. CASE WaitSelect
  BY <1>12, TableType DEF WaitSelect, TypeOK
<1>13. ASSUME NEW d \in Pids, SkipDriver(d) PROVE TypeOK'
  BY <1>13 DEF SkipDriver, AtDriver, TypeOK
<1>14. ASSUME NEW d \in Pids, ReapDriver(d) PROVE TypeOK'
  <2>1. i \in 1 .. Len(drivers) /\ Len(drivers) \in Nat
    BY <1>14, LenProperties DEF ReapDriver, AtDriver, TypeOK
  <2>2. drivers' \in Seq(Pids) /\ Len(drivers') = Len(drivers) - 1
    BY <1>14, <2>1, RemoveProperties DEF ReapDriver, TypeOK
  <2>3. i \in 1 .. Len(drivers') + 1
    BY <2>1, <2>2
  <2> QED
    BY <1>14, <2>2, <2>3 DEF ReapDriver, TypeOK
<1>15. ASSUME NEW d \in Pids, HearDriver(d) PROVE TypeOK'
  <2> DEFINE m == Head(respPipe[d])
  <2>1. m \in Lines /\ Tail(respPipe[d]) \in Seq(Lines) /\ now \in Int
    BY <1>15, PipeTypes DEF HearDriver, TypeOK
  <2>2. Heard(view[d], m, now) \in Statuses
    BY <2>1, HeardType DEF TypeOK
  <2>3. view' = [view EXCEPT ![d] = Heard(view[d], m, now)]
    BY <1>15 DEF HearDriver, TypeOK
  <2> HIDE DEF m
  <2>4. view' \in [Pids -> Statuses] /\ respPipe' \in [Pids -> Seq(Lines)]
    BY <1>15, <2>1, <2>2, <2>3 DEF HearDriver, TypeOK
  <2>5. i' \in 1 .. Len(drivers') + 1
    BY <1>15, LenProperties DEF HearDriver, AtDriver, TypeOK
  <2> QED
    BY <1>15, <2>4, <2>5 DEF HearDriver, TypeOK
<1>16. ASSUME NEW d \in Pids, TakeAnswer(d) PROVE TypeOK'
  <2> DEFINE m == Head(respPipe[d])
             heard == [view EXCEPT ![d] = Heard(@, m, now)]
             entry == IF req.idx \in DOMAIN drivers THEN {drivers[req.idx]} ELSE {}
  <2>1. m \in Lines /\ Tail(respPipe[d]) \in Seq(Lines) /\ now \in Int
    BY <1>16, PipeTypes DEF TakeAnswer, TypeOK
  <2>2. req \in Requests /\ req.timer \in Int
    BY <1>16 DEF TakeAnswer, Expected, TypeOK, Requests
  <2>3. entry \subseteq Pids
    BY ElementOfSeq, LenProperties DEF TypeOK
  <2> HIDE DEF m, entry
  <2>4. Heard(view[d], m, now) \in Statuses
    BY <2>1, HeardType DEF TypeOK
  <2>5. heard \in [Pids -> Statuses]
    BY <2>4 DEF TypeOK
  <2> HIDE DEF heard
  <2>6. \A e \in Pids : /\ heard[e] \in Statuses
                        /\ Heard(heard[e], m, now) \in Statuses
                        /\ BusyUntil(now + req.timer) \in Statuses
    <3>1. now + req.timer \in Int
      BY <2>1, <2>2
    <3>2. \A e \in Pids : heard[e] \in Statuses
      BY <2>5
    <3>3. \A e \in Pids : Heard(heard[e], m, now) \in Statuses
      BY <2>1, <3>2, HeardType
    <3> QED
      BY <3>1, <3>2, <3>3, LineTypes
  <2>7. view' = [e \in Pids |->
                   CASE e \in entry /\ req.verb = "status" -> Heard(heard[e], m, now)
                     [] e \in entry /\ req.verb = "task" /\ m.word = "OK" ->
                           BusyUntil(now + req.timer)
                     [] OTHER -> heard[e]]
    BY <1>16 DEF TakeAnswer, m, heard, entry
  <2>8. view' \in [Pids -> Statuses]
    BY <2>6, <2>7
  <2>9. misled' \subseteq Pids
    BY <1>16, <2>3 DEF TakeAnswer, TypeOK, m, entry
  <2>10. respPipe' \in [Pids -> Seq(Lines)]
    BY <1>16, <2>1 DEF TakeAnswer, TypeOK
  <2>11. Len(drivers) \in Nat
    BY LenProperties DEF TypeOK
  <2> QED
    <3>1. /\ pc' = "scan" /\ i' = 1 /\ req' = NoRequest /\ wready' = {}
          /\ drained' = drained \cup {d}
          /\ UNCHANGED <<drivers, ready, proc, own, cmdPipe, heirs, now, cmds, kills>>
      BY <1>16 DEF TakeAnswer
    <3> QED
      BY <2>8, <2>9, <2>10, <2>11, <3>1 DEF TypeOK
<1>17. CASE ScanEnd
  BY <1>17 DEF ScanEnd, Scanning, TypeOK
<1>18. ASSUME NEW d \in Pids, Kill(d) PROVE TypeOK'
  BY <1>18 DEF Kill, TypeOK
<1>19. CASE Tick
  BY <1>19 DEF Tick, TypeOK
<1>20. CASE UNCHANGED vars
  BY <1>20 DEF vars, TypeOK
<1> QED
  BY <1>1, <1>2, <1>3, <1>4, <1>5, <1>6, <1>7, <1>8, <1>9, <1>10, <1>11, <1>12, <1>13,
     <1>14, <1>15, <1>16, <1>17, <1>18, <1>19, <1>20
     DEF Next, Dispatcher, HandleCommand, ReadDrivers, Driver, SendTask, GetStatus

-----------------------------------------------------------------------------
(* What the processes outside the dispatcher can do to it: they never touch *)
(* its variables, never come back from the dead, and only add lines.         *)

Outside ==
    /\ UNCHANGED dispatcherVars
    /\ \A d \in Pids : /\ Alive(d)' => Alive(d)
                       /\ proc[d] # "unborn" => proc'[d] # "unborn"
                       /\ Ready(d) => Ready(d)'

LEMMA OutsideSteps ==
    ASSUME TypeOK,
           (\E d \in Pids : Driver(d) \/ Kill(d)) \/ Tick \/ UNCHANGED vars
    PROVE  Outside
<1> USE DEF Outside, Alive, Ready
<1>1. ASSUME NEW d \in Pids, NEW m \in Lines, NEW loc \in {"top", "select"},
             Alive(d), Say(d, m, loc)
      PROVE  \A e \in Pids : /\ Alive(e)' => Alive(e)
                             /\ proc[e] # "unborn" => proc'[e] # "unborn"
                             /\ Ready(e) => Ready(e)'
  <2>1. Append(respPipe[d], m) # <<>>
    BY <1>1, PipeTypes, AppendProperties
  <2>2. HeldOpen(d) => /\ respPipe' = [respPipe EXCEPT ![d] = Append(@, m)]
                       /\ proc' = [proc EXCEPT ![d] = loc]
    BY <1>1 DEF Say
  <2>3. ~HeldOpen(d) => /\ proc' = [proc EXCEPT ![d] = "dead"]
                        /\ respPipe' = respPipe
    BY <1>1 DEF Say
  <2>4. CASE HeldOpen(d)
    BY <1>1, <2>1, <2>2, <2>4 DEF TypeOK
  <2>5. CASE ~HeldOpen(d)
    BY <1>1, <2>3, <2>5 DEF TypeOK
  <2> QED
    BY <2>4, <2>5
<1>2. ASSUME NEW d \in Pids, DriverTop(d) PROVE Outside
  <2>1. CASE Overdue(d)
    BY <1>1, <1>2, <2>1, LineTypes DEF DriverTop
  <2>2. CASE ~Overdue(d)
    BY <1>2, <2>2 DEF DriverTop, TypeOK
  <2> QED
    BY <2>1, <2>2
<1>3. ASSUME NEW d \in Pids, DriverTimeout(d) PROVE Outside
  BY <1>3 DEF DriverTimeout, TypeOK
<1>4. ASSUME NEW d \in Pids, DriverCommand(d) PROVE Outside
  <2>1. AnswerTo(d, Head(cmdPipe[d])) \in Lines
    BY RemainingType, LineTypes DEF AnswerTo
  <2> QED
    BY <1>1, <1>4, <2>1 DEF DriverCommand
<1>5. ASSUME NEW d \in Pids, DriverEof(d) PROVE Outside
  BY <1>5 DEF DriverEof, TypeOK
<1>6. ASSUME NEW d \in Pids, Kill(d) PROVE Outside
  BY <1>6 DEF Kill, TypeOK
<1>7. CASE Tick
  BY <1>7 DEF Tick
<1>8. CASE UNCHANGED vars
  BY <1>8 DEF vars
<1> QED
  BY <1>2, <1>3, <1>4, <1>5, <1>6, <1>7, <1>8 DEF Driver

LEMMA TableStep == IInv /\ [Next]_vars => TableInv'
<1> SUFFICES ASSUME IInv, [Next]_vars PROVE TableInv'
  OBVIOUS
<1> USE DEF IInv, TableInv
<1>1. CASE (\E d \in Pids : Driver(d) \/ Kill(d)) \/ Tick \/ UNCHANGED vars
  <2>1. Outside
    BY <1>1, OutsideSteps
  <2> QED
    BY <2>1, TableType DEF Outside, dispatcherVars, Running, Table
<1>2. ASSUME NEW d \in Pids, CreateDriver(d) PROVE TableInv'
  <2>1. d \notin Table /\ proc[d] = "unborn"
    BY <1>2 DEF CreateDriver
  <2>2. IsInjective(drivers') /\ Table' = Table \cup {d}
    BY <1>2, <2>1, AppendToTable DEF CreateDriver, TypeOK, Table
  <2>3. Running
    BY <1>2 DEF CreateDriver, Typed, Running
  <2> QED
    BY <1>2, <2>2, <2>3, TableType DEF CreateDriver, TypeOK, Alive
<1>3. ASSUME NEW d \in Pids, ReapDriver(d) PROVE TableInv'
  <2>1. i \in 1 .. Len(drivers) /\ drivers[i] = d /\ proc[d] = "dead"
    BY <1>3, LenProperties DEF ReapDriver, AtDriver, TypeOK
  <2>2. IsInjective(drivers') /\ Table' = Table \ {d}
    BY <1>3, <2>1, RemoveFromTable DEF ReapDriver, TypeOK, Table
  <2>3. UNCHANGED <<pc, proc>>
    BY <1>3 DEF ReapDriver
  <2> QED
    BY <2>1, <2>2, <2>3 DEF Alive, Running
<1>4. ASSUME UNCHANGED <<drivers, proc>>, Running PROVE TableInv'
  BY <1>4 DEF Alive, Table
<1>5. ASSUME NEW d \in Pids, NEW v, NEW t, SendCommand(d, v, t) PROVE TableInv'
  BY <1>4, <1>5 DEF SendCommand, Typed, Running
<1>6. CASE SelectStdin \/ SelectDrivers \/ WaitSelect
  BY <1>4, <1>6 DEF SelectStdin, SelectDrivers, WaitSelect, Running
<1>7. CASE GetDrivers \/ OtherCommand \/ EndOfInput
  BY <1>4, <1>7 DEF GetDrivers, OtherCommand, EndOfInput, Typed, Running
<1>8. CASE ScanEnd \/ \E d \in Pids : SkipDriver(d) \/ HearDriver(d) \/ TakeAnswer(d)
  BY <1>4, <1>8 DEF ScanEnd, SkipDriver, HearDriver, TakeAnswer, AtDriver, Scanning, Running
<1> QED
  BY <1>1, <1>2, <1>3, <1>5, <1>6, <1>7, <1>8
     DEF Next, Dispatcher, HandleCommand, ReadDrivers, SendTask, GetStatus

LEMMA ReadyStep == IInv /\ [Next]_vars => ReadyInv'
<1> SUFFICES ASSUME IInv, [Next]_vars PROVE ReadyInv'
  OBVIOUS
<1> USE DEF IInv
<1>0. /\ Len(drivers) \in Nat /\ DOMAIN drivers = 1 .. Len(drivers)
      /\ \A k \in 1 .. Len(drivers) : drivers[k] \in Pids /\ drivers[k] \in Table
      /\ \A j, k \in 1 .. Len(drivers) : drivers[j] = drivers[k] => j = k
  BY LenProperties, ElementOfSeq, SMTT(20) DEF TypeOK, TableInv, IsInjective, Table, Range
<1>1. CASE (\E d \in Pids : Driver(d) \/ Kill(d)) \/ Tick \/ UNCHANGED vars
  <2>1. Outside
    BY <1>1, OutsideSteps
  <2>2. ready \subseteq Pids
    BY DEF TypeOK
  <2>3. \A k \in i .. Len(drivers) : drivers[k] \in Pids
    BY <1>0 DEF TypeOK
  <2> QED
    BY <2>1, <2>2, <2>3 DEF Outside, dispatcherVars, ReadyInv
<1>2. CASE SelectStdin
  <2>1. \A d \in ready' : Ready(d)' /\ proc'[d] # "unborn"
    BY <1>2 DEF SelectStdin, Readable, Ready, TableInv
  <2> QED
    BY <1>2, <2>1 DEF SelectStdin, ReadyInv
<1>3. CASE SelectDrivers
  <2>1. \A d \in ready' : Ready(d)' /\ proc'[d] # "unborn"
    BY <1>3 DEF SelectDrivers, Readable, Ready, TableInv
  <2> QED
    BY <1>3, <2>1 DEF SelectDrivers, ReadyInv
<1>4. ASSUME NEW d \in Pids, CreateDriver(d) PROVE ReadyInv'
  <2>1. /\ d \notin ready /\ proc[d] = "unborn" /\ pc = "command"
        /\ proc' = [proc EXCEPT ![d] = "top"] /\ pc' = "scan" /\ i' = 1
        /\ drivers' = Append(drivers, d)
        /\ UNCHANGED <<ready, drained, respPipe>>
    BY <1>4 DEF CreateDriver, Typed, ReadyInv
  <2>2. \A e \in ready \ drained : Ready(e)'
    BY <2>1 DEF ReadyInv, Ready, TypeOK
  <2> QED
    BY <2>1, <2>2 DEF ReadyInv, TypeOK
<1>5. ASSUME pc = "command", pc' \in {"wait", "scan", "select", "killed", "exited"},
             UNCHANGED <<drivers, ready, drained, proc, respPipe>>
      PROVE  ReadyInv'
  BY <1>5 DEF ReadyInv, Ready
<1>6. ASSUME NEW d \in Pids, NEW v, NEW t, SendCommand(d, v, t) PROVE ReadyInv'
  BY <1>5, <1>6 DEF SendCommand, Typed
<1>7. CASE GetDrivers \/ OtherCommand \/ EndOfInput
  BY <1>5, <1>7 DEF GetDrivers, OtherCommand, EndOfInput, Typed
<1>8. CASE WaitSelect
  BY <1>8 DEF WaitSelect, ReadyInv, Ready
<1>9. ASSUME NEW d \in Pids, SkipDriver(d) PROVE ReadyInv'
  <2>1. i' = i + 1 /\ i \in Nat
    BY <1>9 DEF SkipDriver, TypeOK
  <2>2. \A k \in i' .. Len(drivers) : k \in i .. Len(drivers)
    BY <1>0, <2>1
  <2> QED
    BY <1>9, <2>2 DEF SkipDriver, ReadyInv, Ready
<1>10. ASSUME NEW d \in Pids, ReapDriver(d) PROVE ReadyInv'
  <2>1. i \in 1 .. Len(drivers) /\ drivers \in Seq(Pids)
    BY <1>0, <1>10 DEF ReapDriver, AtDriver, TypeOK
  <2>2. /\ Len(drivers') = Len(drivers) - 1
        /\ \A j \in 1 .. Len(drivers) - 1 :
             drivers'[j] = IF j < i THEN drivers[j] ELSE drivers[j + 1]
    BY <1>10, <2>1, RemoveProperties DEF ReapDriver
  <2>3. \A k \in i .. Len(drivers') : /\ k + 1 \in i .. Len(drivers)
                                      /\ drivers'[k] = drivers[k + 1]
    BY <1>0, <2>1, <2>2
  <2> QED
    BY <1>10, <2>3 DEF ReapDriver, ReadyInv, Ready
<1>11. ASSUME NEW d \in Pids, HearDriver(d) PROVE ReadyInv'
  <2>1. /\ i \in 1 .. Len(drivers) /\ drivers[i] = d /\ i' = i + 1
        /\ pc \in {"waitscan", "scan"} /\ pc' = pc
        /\ UNCHANGED <<drivers, ready, proc>>
        /\ \A e \in Pids : e # d => respPipe'[e] = respPipe[e]
    BY <1>0, <1>11 DEF HearDriver, AtDriver, Scanning, TypeOK
  <2>2. CASE pc = "waitscan"
    <3>1. drained' = drained \cup {d}
      BY <1>11, <2>2 DEF HearDriver
    <3>2. \A e \in ready \ drained' : e # d /\ e \in Pids /\ Ready(e)
      BY <2>2, <3>1 DEF ReadyInv, TypeOK
    <3> QED
      BY <2>1, <2>2, <3>2 DEF ReadyInv, Ready
  <2>3. CASE pc = "scan"
    <3>1. drained' = drained
      BY <1>11, <2>3 DEF HearDriver
    <3>2. \A k \in i' .. Len(drivers) : /\ k \in i .. Len(drivers) /\ drivers[k] # d
                                        /\ drivers[k] \in Pids
      BY <1>0, <2>1
    <3> QED
      BY <2>1, <2>3, <3>1, <3>2 DEF ReadyInv, Ready
  <2> QED
    BY <2>1, <2>2, <2>3
<1>12. ASSUME NEW d \in Pids, TakeAnswer(d) PROVE ReadyInv'
  <2>1. /\ pc = "waitscan" /\ pc' = "scan" /\ i' = 1 /\ drained' = drained \cup {d}
        /\ UNCHANGED <<drivers, ready, proc>>
        /\ \A e \in Pids : e # d => respPipe'[e] = respPipe[e]
    BY <1>12 DEF TakeAnswer, Expected, TypeOK
  <2>2. \A e \in ready \ drained' : e # d /\ e \in Pids /\ Ready(e)
    BY <2>1 DEF ReadyInv, TypeOK
  <2> QED
    BY <2>1, <2>2 DEF ReadyInv, Ready
<1>13. CASE ScanEnd
  <2>1. \/ pc = "waitscan" /\ pc' = "wait" /\ ready' = ready
        \/ pc' = "select" /\ ready' = {}
    BY <1>13 DEF ScanEnd, Scanning
  <2> QED
    BY <1>13, <2>1 DEF ScanEnd, ReadyInv, Ready
<1> QED
  BY <1>1, <1>2, <1>3, <1>4, <1>6, <1>7, <1>8, <1>9, <1>10, <1>11, <1>12, <1>13
     DEF Next, Dispatcher, HandleCommand, ReadDrivers, SendTask, GetStatus

-----------------------------------------------------------------------------
LEMMA InitInv == Init => IInv
<1> SUFFICES ASSUME Init PROVE IInv
  OBVIOUS
<1>1. TypeOK
  BY TypeInit
<1>2. TableInv
  BY DEF Init, TableInv, Table, Range, IsInjective, Alive
<1>3. ReadyInv
  BY DEF Init, ReadyInv
<1> QED
  BY <1>1, <1>2, <1>3 DEF IInv

\* The three parts together are an inductive invariant.
THEOREM Invariance == Spec => []IInv
<1>1. IInv /\ [Next]_vars => IInv'
  BY TypeStep, TableStep, ReadyStep DEF IInv
<1> QED
  BY <1>1, InitInv, PTL DEF Spec

\* Every variable of the dispatcher, its pipes and its drivers keeps its type:
\* the indexes of both scanning loops stay within the table (99-139, 341-365).
THEOREM TypeCorrectness == Spec => []TypeOK
<1>1. IInv => TypeOK
  BY DEF IInv
<1> QED
  BY <1>1, Invariance, PTL

\* remove_driver (34-42) takes out the entry of a dead driver and no other one,
\* whatever lines arrive and whichever drivers die while the loops run.
THEOREM TableKeepsDrivers == Spec => []NoLiveDriverLost
<1>1. IInv => NoLiveDriverLost
  BY DEF IInv, TableInv, NoLiveDriverLost
<1> QED
  BY <1>1, Invariance, PTL

\* The blocking read at the end of main (341-364) is safe after every command
\* that does not wait for a response: only a line that wait_for_response took
\* in the same iteration can leave the dispatcher without one to read.
THEOREM ScanTheorem == Spec => []ScanBlocksOnlyOnDrained
<1>1. IInv => ScanBlocksOnlyOnDrained
  <2> SUFFICES ASSUME IInv, NEW d \in Pids, Blocked(d), d \notin drained PROVE FALSE
    BY DEF ScanBlocksOnlyOnDrained
  <2>1. /\ pc = "scan" /\ i \in 1 .. Len(drivers) /\ Len(drivers) \in Nat
        /\ drivers[i] = d /\ d \in ready /\ ~Ready(d)
    BY LenProperties DEF Blocked, AtDriver, Ready, Alive, IInv, TypeOK
  <2>2. i \in i .. Len(drivers)
    BY <2>1
  <2> QED
    BY <2>1, <2>2 DEF IInv, ReadyInv
<1> QED
  BY <1>1, Invariance, PTL

-----------------------------------------------------------------------------
(* The table agrees with the drivers.  The invariant follows the lines        *)
(* between the dispatcher and one driver: a command on its way, the           *)
(* announcements, and the answer to come.                                     *)

\* The announcement that a task is over.
OnlyNotices(s) == \A k \in DOMAIN s : s[k] = Notice

\* An entry that nothing on its way can change any more.
Agree(d) ==
    /\ view[d].busy => own[d].busy /\ own[d].end_time <= view[d].end_time
    /\ own[d].busy /\ ~view[d].busy => own[d].end_time <= now

\* Nothing but announcements is to be read, and after one the driver is free.
Noticed(d) ==
    /\ OnlyNotices(respPipe[d])
    /\ respPipe[d] = <<>> => Agree(d)
    /\ respPipe[d] # <<>> => ~own[d].busy

\* What the answer m says is so, and not worse when it is read later.
Fits(d, m) ==
    /\ m.word = "OK" => /\ req.verb = "task" /\ own[d].busy
                        /\ own[d].end_time <= now + req.timer
    /\ m.word = "Busy" => own[d].busy /\ own[d].end_time <= now + m.rem
    /\ m.word = "Available" => ~own[d].busy

\* The answer can be read, unless an announcement is taken for it.
Answered(d) ==
    /\ respPipe[d] # <<>>
    /\ Head(respPipe[d]) # Notice =>
         /\ OnlyNotices(Tail(respPipe[d]))
         /\ Tail(respPipe[d]) = <<>> => Fits(d, Head(respPipe[d]))
         /\ Tail(respPipe[d]) # <<>> => ~own[d].busy

\* The command the dispatcher waits for is on its way.
Asked(d) ==
    /\ cmdPipe[d] # <<>>
    /\ Head(cmdPipe[d]) = [verb |-> req.verb, timer |-> req.timer]
    /\ Tail(cmdPipe[d]) = <<>>

Exchange(d) ==
    IF Awaiting(d) THEN \/ cmdPipe[d] = <<>> /\ Answered(d)
                        \/ Asked(d) /\ Noticed(d)
                   ELSE cmdPipe[d] = <<>> /\ Noticed(d)

Unborn(d) == own[d] = Free /\ cmdPipe[d] = <<>> /\ respPipe[d] = <<>>

ExchangeInv ==
    /\ \A d \in Pids : proc[d] = "unborn" => Unborn(d)
    /\ Running => \A d \in Table \ misled : Exchange(d)
-----------------------------------------------------------------------------
(* The lines of a pipe.                                                     *)

LEMMA PipeAppend ==
    ASSUME NEW s \in Seq(Lines), NEW m \in Lines
    PROVE  /\ Append(s, m) # <<>>
           /\ s = <<>> => Head(Append(s, m)) = m /\ Tail(Append(s, m)) = <<>>
           /\ s # <<>> => Head(Append(s, m)) = Head(s) /\ Tail(Append(s, m)) = Append(Tail(s), m)
  OBVIOUS

LEMMA NoticesAppend ==
    ASSUME NEW s \in Seq(Lines), OnlyNotices(s)
    PROVE  OnlyNotices(Append(s, Notice))
  BY LineTypes DEF OnlyNotices

LEMMA NoticesTail ==
    ASSUME NEW s \in Seq(Lines), OnlyNotices(s), s # <<>>
    PROVE  Head(s) = Notice /\ OnlyNotices(Tail(s))
  BY DEF OnlyNotices

-----------------------------------------------------------------------------

\* An exchange only gets truer while its lines and its two ends stay as they are.
LEMMA Frame ==
    ASSUME TypeOK, TypeOK', NEW d \in Pids, Exchange(d),
           own'[d] = own[d], view'[d] = view[d],
           cmdPipe'[d] = cmdPipe[d], respPipe'[d] = respPipe[d], now <= now',
           Awaiting(d)' <=> Awaiting(d), Awaiting(d) => req' = req
    PROVE  Exchange(d)'
<1>1. /\ now \in Int /\ now' \in Int
      /\ own[d].end_time \in Int /\ view[d].end_time \in Int
      /\ respPipe[d] \in Seq(Lines)
  BY BoundsAssumption DEF TypeOK, Statuses
<1>2. Agree(d) => Agree(d)'
  BY <1>1 DEF Agree
<1>3. Noticed(d) => Noticed(d)'
  BY <1>2 DEF Noticed
<1>4. CASE Awaiting(d)
  <2>1. req \in Requests /\ req' = req
    BY <1>4 DEF Awaiting, TypeOK
  <2>2. req.timer \in Int
    BY <2>1 DEF Requests
  <2>3. ASSUME NEW m \in Lines, Fits(d, m) PROVE Fits(d, m)'
    <3>1. m.rem \in Int
      BY DEF Lines
    <3> QED
      BY <1>1, <2>1, <2>2, <2>3, <3>1 DEF Fits
  <2>4. Answered(d) => Answered(d)'
    BY <1>1, <2>3 DEF Answered
  <2>5. Asked(d) => Asked(d)'
    BY <2>1 DEF Asked
  <2> QED
    BY <1>3, <1>4, <2>4, <2>5 DEF Exchange
<1>5. CASE ~Awaiting(d)
  BY <1>3, <1>5 DEF Exchange
<1> QED
  BY <1>4, <1>5

\* A driver writes.
LEMMA SayHeld ==
    ASSUME TypeOK, Running, NEW d \in Table, NEW m \in Lines,
           NEW loc \in {"top", "select"}, Say(d, m, loc)
    PROVE  respPipe'[d] = Append(respPipe[d], m)
<1>1. HeldOpen(d)
  BY DEF HeldOpen
<1>2. d \in Pids
  BY TableType
<1> QED
  BY <1>1, <1>2 DEF Say, TypeOK

\* The announcement: the driver is free, and the entry will learn it.
LEMMA AnnounceExchange ==
    ASSUME TypeOK, TypeOK', Running, NEW d \in Table, Exchange(d), DriverTop(d), Overdue(d)
    PROVE  Exchange(d)'
<1>1. /\ d \in Pids /\ respPipe[d] \in Seq(Lines) /\ Notice \in Lines
  BY TableType, PipeTypes, LineTypes
<1>2. /\ UNCHANGED <<dispatcherVars, cmdPipe>>
      /\ own'[d].busy = FALSE
      /\ respPipe'[d] = Append(respPipe[d], Notice)
  <2>1. /\ UNCHANGED <<dispatcherVars, cmdPipe>>
        /\ own' = [own EXCEPT ![d].busy = FALSE]
        /\ Say(d, Notice, "select")
    BY DEF DriverTop
  <2>2. own'[d].busy = FALSE
    BY <1>1, <2>1 DEF TypeOK, Statuses
  <2>3. respPipe'[d] = Append(respPipe[d], Notice)
    BY <1>1, <2>1, SayHeld
  <2> QED
    BY <2>1, <2>2, <2>3
<1>3. Awaiting(d)' <=> Awaiting(d)
  BY <1>2 DEF Awaiting, dispatcherVars
<1>4. Noticed(d) => Noticed(d)'
  BY <1>1, <1>2, PipeAppend, NoticesAppend DEF Noticed
<1>5. Answered(d) => Answered(d)'
  <2> SUFFICES ASSUME Answered(d) PROVE Answered(d)'
    OBVIOUS
  <2>1. /\ respPipe[d] # <<>> /\ Tail(respPipe[d]) \in Seq(Lines)
        /\ Head(respPipe'[d]) = Head(respPipe[d])
        /\ Tail(respPipe'[d]) = Append(Tail(respPipe[d]), Notice)
        /\ respPipe'[d] # <<>> /\ Tail(respPipe'[d]) # <<>>
    BY <1>1, <1>2, PipeAppend, PipeTypes DEF Answered
  <2>2. Head(respPipe[d]) # Notice => OnlyNotices(Tail(respPipe'[d]))
    BY <2>1, NoticesAppend DEF Answered
  <2> QED
    BY <1>2, <2>1, <2>2 DEF Answered
<1>6. Asked(d) => Asked(d)'
  BY <1>2 DEF Asked, dispatcherVars
<1> QED
  BY <1>2, <1>3, <1>4, <1>5, <1>6 DEF Exchange

\* The answer: it says what the driver is when it has written it.
LEMMA CommandExchange ==
    ASSUME TypeOK, TypeOK', Running, NEW d \in Table, Exchange(d), DriverCommand(d)
    PROVE  Exchange(d)'
<1> DEFINE c == Head(cmdPipe[d])
<1>1. /\ d \in Pids /\ respPipe[d] \in Seq(Lines) /\ c \in Commands
      /\ now \in Int /\ own[d] \in Statuses
  BY TableType, PipeTypes, BoundsAssumption DEF DriverCommand, TypeOK
<1>2. /\ Awaiting(d) /\ Asked(d) /\ Noticed(d)
      /\ c = [verb |-> req.verb, timer |-> req.timer]
  BY DEF DriverCommand, Exchange, Asked
<1>3. PICK m \in Lines : m = AnswerTo(d, c)
  BY <1>1, LineTypes, RemainingType DEF AnswerTo
<1>8. /\ m.rem \in Int
      /\ own[d].busy => m = Answer("Busy", Remaining(d))
      /\ ~own[d].busy => m = Answer(IF c.verb = "task" THEN "OK" ELSE "Available", 0)
  BY <1>3 DEF AnswerTo, Lines
<1>4. /\ UNCHANGED <<dispatcherVars, now>>
      /\ cmdPipe'[d] = Tail(cmdPipe[d])
      /\ respPipe'[d] = Append(respPipe[d], m)
      /\ own'[d] = IF c.verb = "task" /\ ~own[d].busy THEN BusyUntil(now + c.timer) ELSE own[d]
  BY <1>1, <1>3, SayHeld DEF DriverCommand, TypeOK
<1>5. Awaiting(d)' /\ cmdPipe'[d] = <<>>
  BY <1>2, <1>4 DEF Awaiting, Asked, dispatcherVars
<1>6. Fits(d, m)'
  <2>1. c.timer \in Int /\ c.verb = req.verb /\ c.timer = req.timer /\ req' = req
    BY <1>1, <1>2, <1>4 DEF Commands, dispatcherVars
  <2>2. CASE own[d].busy
    <3>1. m.word = "Busy" /\ m.rem = Remaining(d) /\ own'[d] = own[d]
      BY <1>8, <1>4, <2>2 DEF Answer
    <3>2. own[d].end_time <= now + Remaining(d)
      BY <1>1 DEF Remaining, Statuses
    <3> QED
      BY <1>4, <2>2, <3>1, <3>2 DEF Fits
  <2>3. CASE ~own[d].busy /\ c.verb = "task"
    <3>1. m.word = "OK" /\ own'[d] = BusyUntil(now + c.timer)
      BY <1>8, <1>4, <2>3 DEF Answer
    <3>2. own'[d].busy /\ own'[d].end_time = now + c.timer
      BY <3>1 DEF BusyUntil
    <3> QED
      BY <1>1, <1>4, <2>1, <2>3, <3>1, <3>2 DEF Fits
  <2>4. CASE ~own[d].busy /\ c.verb # "task"
    <3>1. m.word = "Available" /\ own'[d] = own[d]
      BY <1>8, <1>4, <2>4 DEF Answer
    <3> QED
      BY <2>4, <3>1 DEF Fits
  <2> QED
    BY <2>2, <2>3, <2>4
<1>7. Answered(d)'
  <2>1. CASE respPipe[d] = <<>>
    <3>1. respPipe'[d] # <<>> /\ Head(respPipe'[d]) = m /\ Tail(respPipe'[d]) = <<>>
      BY <1>1, <1>3, <1>4, <2>1, PipeAppend
    <3>2. OnlyNotices(<<>>)
      BY DEF OnlyNotices
    <3> QED
      BY <1>6, <3>1, <3>2 DEF Answered
  <2>2. CASE respPipe[d] # <<>>
    <3>1. respPipe'[d] # <<>> /\ Head(respPipe'[d]) = Head(respPipe[d])
      BY <1>1, <1>3, <1>4, <2>2, PipeAppend
    <3>2. Head(respPipe[d]) = Notice
      BY <1>1, <1>2, <2>2, NoticesTail DEF Noticed
    <3> QED
      BY <3>1, <3>2 DEF Answered
  <2> QED
    BY <2>1, <2>2
<1> QED
  BY <1>5, <1>7 DEF Exchange

\* An announcement is heard when no answer is waited for.
LEMMA HearExchange ==
    ASSUME TypeOK, TypeOK', NEW d \in Pids, Exchange(d), HearDriver(d)
    PROVE  Exchange(d)'
<1>1. /\ respPipe[d] \in Seq(Lines) /\ respPipe[d] # <<>>
      /\ ~Awaiting(d) /\ ~Awaiting(d)'
      /\ UNCHANGED <<own, cmdPipe, now>>
      /\ respPipe'[d] = Tail(respPipe[d])
      /\ view'[d] = Heard(view[d], Head(respPipe[d]), now)
  BY DEF HearDriver, AtDriver, Scanning, Expected, Awaiting, TypeOK
<1>2. cmdPipe[d] = <<>> /\ OnlyNotices(respPipe[d]) /\ ~own[d].busy
  BY <1>1 DEF Exchange, Noticed
<1>3. Head(respPipe[d]) = Notice /\ OnlyNotices(Tail(respPipe[d]))
  BY <1>1, <1>2, NoticesTail
<1>4. view'[d].busy = FALSE
  BY <1>1, <1>3, SMTT(20) DEF Heard, Notice, TypeOK, Statuses
<1>5. Agree(d)'
  BY <1>1, <1>2, <1>4 DEF Agree
<1> QED
  BY <1>1, <1>2, <1>3, <1>5 DEF Exchange, Noticed

\* The answer is taken, if it is one and idx still is the driver's own.
LEMMA TakeExchange ==
    ASSUME TypeOK, TypeOK', NEW d \in Pids, Exchange(d), TakeAnswer(d), d \notin misled'
    PROVE  Exchange(d)'
<1> DEFINE m == Head(respPipe[d])
           entry == IF req.idx \in DOMAIN drivers THEN {drivers[req.idx]} ELSE {}
           heard == [view EXCEPT ![d] = Heard(@, m, now)]
<1>1. /\ respPipe[d] \in Seq(Lines) /\ respPipe[d] # <<>> /\ m \in Lines
      /\ Awaiting(d) /\ ~Awaiting(d)' /\ req \in Requests
      /\ UNCHANGED <<own, cmdPipe, now>>
      /\ respPipe'[d] = Tail(respPipe[d])
  BY PipeTypes DEF TakeAnswer, AtDriver, Expected, Awaiting, TypeOK
<1>2. entry = {d} /\ m # Notice
  <2>1. misled' = misled \cup (IF m.notice THEN {d} ELSE {})
                         \cup (IF entry = {d} THEN {} ELSE {d} \cup entry)
    BY DEF TakeAnswer
  <2>2. entry = {d}
    BY <2>1
  <2>3. ~m.notice
    BY <2>1
  <2> QED
    BY <2>2, <2>3 DEF Notice
<1>3. view'[d] = CASE req.verb = "status" -> Heard(Heard(view[d], m, now), m, now)
                   [] req.verb = "task" /\ m.word = "OK" -> BusyUntil(now + req.timer)
                   [] OTHER -> Heard(view[d], m, now)
  <2>1. heard[d] = Heard(view[d], m, now)
    BY DEF TypeOK
  <2>2. view'[d] = CASE d \in entry /\ req.verb = "status" -> Heard(heard[d], m, now)
                     [] d \in entry /\ req.verb = "task" /\ m.word = "OK" ->
                           BusyUntil(now + req.timer)
                     [] OTHER -> heard[d]
    BY DEF TakeAnswer
  <2> HIDE DEF heard, entry, m
  <2> QED
    BY <1>2, <2>1, <2>2
<1>4. cmdPipe[d] = <<>> /\ Answered(d)
  <2>1. ~Noticed(d)
    BY <1>1, <1>2, NoticesTail DEF Noticed
  <2> QED
    BY <1>1, <2>1 DEF Exchange
<1>5. /\ OnlyNotices(Tail(respPipe[d]))
      /\ Tail(respPipe[d]) = <<>> => Fits(d, m)
      /\ Tail(respPipe[d]) # <<>> => ~own[d].busy
  BY <1>2, <1>4 DEF Answered
<1>6. ASSUME Fits(d, m) PROVE Agree(d)'
  <2>1. /\ m.word \in {"OK", "Busy", "Available"} /\ m.rem \in Int
        /\ now \in Int /\ req.timer \in Int /\ req.verb \in {"task", "status"}
        /\ view[d] \in Statuses /\ own[d] \in Statuses
    BY <1>1, BoundsAssumption, SMTT(20) DEF Lines, Requests, TypeOK
  <2> HIDE DEF m
  <2>2. CASE m.word = "OK"
    <3>1. view'[d] = BusyUntil(now + req.timer)
      BY <1>3, <1>6, <2>2 DEF Fits
    <3>2. view'[d].busy /\ view'[d].end_time = now + req.timer
      BY <3>1 DEF BusyUntil
    <3> QED
      BY <1>1, <1>6, <2>2, <3>2 DEF Fits, Agree
  <2>3. CASE m.word = "Busy"
    <3>1. view'[d] = BusyUntil(now + m.rem)
      BY <1>3, <2>1, <2>3 DEF Heard
    <3>2. view'[d].busy /\ view'[d].end_time = now + m.rem
      BY <3>1 DEF BusyUntil
    <3> QED
      BY <1>1, <1>6, <2>3, <3>2 DEF Fits, Agree
  <2>4. CASE m.word = "Available"
    <3>1. \A e \in Statuses : Heard(e, m, now) \in Statuses /\ Heard(e, m, now).busy = FALSE
      BY <2>4 DEF Heard, Statuses
    <3>2. view'[d].busy = FALSE
      BY <1>3, <2>1, <2>4, <3>1
    <3>3. ~own[d].busy
      BY <1>6, <2>4 DEF Fits
    <3> QED
      BY <1>1, <3>2, <3>3 DEF Agree
  <2> QED
    BY <2>1, <2>2, <2>3, <2>4
<1>7. Noticed(d)'
  BY <1>1, <1>5, <1>6 DEF Noticed
<1> QED
  BY <1>1, <1>4, <1>7 DEF Exchange

\* A driver that is not forked yet has said and heard nothing.
LEMMA UnbornStep ==
    ASSUME IInv, \A d \in Pids : proc[d] = "unborn" => Unborn(d), [Next]_vars,
           NEW d \in Pids, proc'[d] = "unborn"
    PROVE  Unborn(d)'
<1> USE DEF IInv
<1>0. TypeOK /\ (d \notin Table \/ proc[d] # "unborn")
  BY DEF TableInv
<1>1. ASSUME NEW e \in Pids, Driver(e) \/ Kill(e) PROVE Unborn(d)'
  <2>1. e # d => /\ proc'[d] = proc[d] /\ UNCHANGED <<own[d], cmdPipe[d], respPipe[d]>>
    BY <1>1, <1>0 DEF Driver, DriverTop, DriverTimeout, DriverCommand, DriverEof, Kill, Say, TypeOK
  <2>2. e # d
    BY <1>1, <1>0 DEF Driver, DriverTop, DriverTimeout, DriverCommand, DriverEof, Kill, Say,
                      Alive, TypeOK
  <2> QED
    BY <2>1, <2>2 DEF Unborn
<1>2. ASSUME NEW e \in Pids, CreateDriver(e) PROVE Unborn(d)'
  BY <1>0, <1>2 DEF CreateDriver, TypeOK, Unborn
<1>3. ASSUME NEW e \in Pids, NEW verb, NEW timer, SendCommand(e, verb, timer) PROVE Unborn(d)'
  <2>1. proc[d] = "unborn" /\ Unborn(d) /\ d # e /\ e \in Table
    BY <1>0, <1>3 DEF SendCommand
  <2>2. cmdPipe'[d] = cmdPipe[d]
    BY <1>0, <1>3, <2>1 DEF SendCommand, TypeOK
  <2> QED
    BY <1>3, <2>1, <2>2 DEF SendCommand, Unborn
<1>4. ASSUME NEW e \in Pids, HearDriver(e) \/ TakeAnswer(e) PROVE Unborn(d)'
  <2>1. /\ proc' = proc /\ UNCHANGED <<own, cmdPipe>>
        /\ respPipe[e] # <<>> /\ respPipe' = [respPipe EXCEPT ![e] = Tail(@)]
    BY <1>4 DEF HearDriver, TakeAnswer
  <2>2. Unborn(d) /\ d # e
    BY <2>1 DEF Unborn
  <2>3. respPipe'[d] = respPipe[d]
    BY <1>0, <2>1, <2>2 DEF TypeOK
  <2> QED
    BY <2>1, <2>2, <2>3 DEF Unborn
<1>5. CASE UNCHANGED <<proc, own, cmdPipe, respPipe>>
  BY <1>5 DEF Unborn
<1>6. ASSUME SelectStdin \/ SelectDrivers \/ GetDrivers \/ OtherCommand \/ EndOfInput \/ WaitSelect
             \/ ScanEnd \/ Tick \/ UNCHANGED vars \/ \E e \in Pids : SkipDriver(e) \/ ReapDriver(e)
      PROVE  UNCHANGED <<proc, own, cmdPipe, respPipe>>
  BY <1>6 DEF SelectStdin, SelectDrivers, GetDrivers, OtherCommand, EndOfInput, WaitSelect,
              ScanEnd, Tick, vars, SkipDriver, ReapDriver
<1> QED
  BY <1>1, <1>2, <1>3, <1>4, <1>5, <1>6
     DEF Next, Dispatcher, HandleCommand, ReadDrivers, SendTask, GetStatus

\* What leaves the lines and the entries alone, and who waits for what.
Aside ==
    /\ UNCHANGED <<own, view, cmdPipe, respPipe, req, misled>>
    /\ now <= now' /\ Table' \subseteq Table
    /\ Running' => Running
    /\ \A d \in Pids : Awaiting(d)' <=> Awaiting(d)

LEMMA AsideSteps ==
    ASSUME IInv,
           SelectStdin \/ SelectDrivers \/ OtherCommand \/ EndOfInput \/ WaitSelect
             \/ ScanEnd \/ Tick \/ UNCHANGED vars
             \/ \E d \in Pids : SkipDriver(d) \/ ReapDriver(d) \/ Kill(d)
    PROVE  Aside
<1> USE DEF Aside, IInv, Awaiting, Running
<1>0. now \in Int
  BY BoundsAssumption DEF TypeOK
<1>1. CASE SelectStdin \/ SelectDrivers \/ OtherCommand \/ EndOfInput \/ WaitSelect
  BY <1>0, <1>1 DEF SelectStdin, SelectDrivers, OtherCommand, EndOfInput, WaitSelect, Typed, Table
<1>2. CASE ScanEnd
  BY <1>0, <1>2 DEF ScanEnd, Scanning, Table
<1>3. CASE Tick \/ UNCHANGED vars
  BY <1>0, <1>3 DEF Tick, vars, dispatcherVars, Table
<1>4. ASSUME NEW d \in Pids, SkipDriver(d) \/ Kill(d) PROVE Aside
  BY <1>0, <1>4 DEF SkipDriver, Kill, dispatcherVars, Table
<1>5. ASSUME NEW d \in Pids, ReapDriver(d) PROVE Aside
  <2>1. drivers \in Seq(Pids) /\ IsInjective(drivers) /\ i \in 1 .. Len(drivers)
    BY <1>5, LenProperties DEF ReapDriver, AtDriver, TypeOK, TableInv
  <2>2. Range(Removed(drivers, i)) \subseteq Range(drivers)
    BY <2>1, RemoveFromTable
  <2>3. Table' \subseteq Table
    BY <1>5, <2>2 DEF ReapDriver, Table
  <2> QED
    BY <1>0, <1>5, <2>3 DEF ReapDriver
<1> QED
  BY <1>1, <1>2, <1>3, <1>4, <1>5

LEMMA ExchangeStep == IInv /\ IInv' /\ ExchangeInv /\ [Next]_vars => ExchangeInv'
<1> SUFFICES ASSUME IInv, IInv', ExchangeInv, [Next]_vars PROVE ExchangeInv'
  OBVIOUS
<1>10. TypeOK /\ TypeOK'
  BY DEF IInv
<1>11. Table \subseteq Pids /\ now \in Int
  BY <1>10, TableType, BoundsAssumption DEF TypeOK
<1>0. /\ TypeOK /\ TypeOK' /\ Table \subseteq Pids /\ now \in Int
      /\ \A d \in Pids : proc[d] = "unborn" => Unborn(d)
      /\ Running => \A d \in Table \ misled : Exchange(d)
  BY <1>10, <1>11 DEF ExchangeInv
<1>1. \A d \in Pids : proc'[d] = "unborn" => Unborn(d)'
  BY <1>0, UnbornStep
<1>2. SUFFICES ASSUME Running', NEW d \in Table', d \notin misled' PROVE Exchange(d)'
  BY <1>1 DEF ExchangeInv
<1>3. CASE Aside
  <2>1. d \in Table /\ d \in Pids /\ d \notin misled /\ Exchange(d)
    BY <1>0, <1>2, <1>3 DEF Aside
  <2> QED
    BY <1>0, <1>3, <2>1, Frame DEF Aside
<1>4. ASSUME NEW e \in Pids, Driver(e) PROVE Exchange(d)'
  <2>1. /\ UNCHANGED <<dispatcherVars, now>>
        /\ d \in Table /\ d \in Pids /\ d \notin misled /\ Running /\ Exchange(d)
    BY <1>0, <1>2, <1>4 DEF Driver, DriverTop, DriverTimeout, DriverCommand, DriverEof,
                            dispatcherVars, Running, Table
  <2>2. (Awaiting(d)' <=> Awaiting(d)) /\ req' = req /\ view' = view /\ now <= now'
    BY <1>0, <2>1 DEF Awaiting, dispatcherVars
  <2>3. CASE UNCHANGED <<own[d], cmdPipe[d], respPipe[d]>>
    BY <1>0, <2>1, <2>2, <2>3, Frame
  <2>4. CASE e # d
    <3>1. own'[d] = own[d]
      BY <1>0, <1>4, <2>1, <2>4
         DEF Driver, DriverTop, DriverTimeout, DriverCommand, DriverEof, TypeOK
    <3>2. cmdPipe'[d] = cmdPipe[d]
      BY <1>0, <1>4, <2>1, <2>4
         DEF Driver, DriverTop, DriverTimeout, DriverCommand, DriverEof, TypeOK
    <3>3. respPipe'[d] = respPipe[d]
      <4>1. ASSUME NEW m, NEW loc, Say(e, m, loc) PROVE respPipe'[d] = respPipe[d]
        BY <1>0, <2>1, <2>4, <4>1 DEF Say, TypeOK
      <4>2. CASE DriverTop(e)
        BY <4>1, <4>2 DEF DriverTop
      <4>3. CASE DriverCommand(e)
        BY <4>1, <4>3 DEF DriverCommand
      <4>4. CASE DriverTimeout(e) \/ DriverEof(e)
        BY <4>4 DEF DriverTimeout, DriverEof
      <4> QED
        BY <1>4, <4>2, <4>3, <4>4 DEF Driver
    <3> QED
      BY <2>3, <3>1, <3>2, <3>3
  <2>5. CASE e = d /\ DriverTop(d)
    <3>1. CASE Overdue(d)
      BY <1>0, <2>1, <2>5, <3>1, AnnounceExchange
    <3>2. CASE ~Overdue(d)
      BY <2>3, <2>5, <3>2 DEF DriverTop
    <3> QED
      BY <3>1, <3>2
  <2>6. CASE e = d /\ DriverCommand(d)
    BY <1>0, <2>1, <2>6, CommandExchange
  <2>7. CASE e = d /\ (DriverTimeout(d) \/ DriverEof(d))
    BY <2>3, <2>7 DEF DriverTimeout, DriverEof
  <2> QED
    BY <1>4, <2>4, <2>5, <2>6, <2>7 DEF Driver
<1>5. ASSUME NEW e \in Pids, CreateDriver(e) PROVE Exchange(d)'
  <2>1. /\ pc = "command" /\ pc' = "scan" /\ proc[e] = "unborn"
        /\ UNCHANGED <<misled, own, cmdPipe, respPipe, now>>
        /\ view' = [view EXCEPT ![e] = Free] /\ drivers' = Append(drivers, e)
        /\ ~Awaiting(d) /\ ~Awaiting(d)'
    BY <1>5 DEF CreateDriver, Typed, Awaiting
  <2>2. CASE d = e
    <3>1. Unborn(d) /\ view'[d] = Free
      BY <1>0, <2>1, <2>2 DEF TypeOK
    <3>2. Agree(d)' /\ OnlyNotices(<<>>)
      BY <2>1, <3>1 DEF Agree, Unborn, Free, OnlyNotices
    <3> QED
      BY <2>1, <3>1, <3>2 DEF Exchange, Noticed, Unborn
  <2>3. CASE d # e
    <3>1. Table' \subseteq Table \cup {e}
      <4>1. drivers \in Seq(Pids)
        BY <1>0 DEF TypeOK
      <4> QED
        BY <2>1, <4>1, AppendProperties DEF Table, Range
    <3>2. d \in Table /\ d \in Pids /\ d \notin misled /\ Exchange(d)
      BY <1>0, <1>2, <2>1, <2>3, <3>1 DEF Running
    <3>3. view'[d] = view[d]
      BY <1>0, <2>1, <2>3, <3>2 DEF TypeOK
    <3> QED
      BY <1>0, <2>1, <3>2, <3>3, Frame
  <2> QED
    BY <2>2, <2>3
<1>6. ASSUME NEW e \in Pids, NEW verb, NEW timer, SendCommand(e, verb, timer)
      PROVE  Exchange(d)'
  <2>1. /\ pc = "command" /\ pc' = "wait" /\ ~Awaiting(d)
        /\ cmdPipe' = [cmdPipe EXCEPT ![e] = Append(@, [verb |-> verb, timer |-> timer])]
        /\ req'.pid = e /\ req'.verb = verb /\ req'.timer = timer
        /\ UNCHANGED <<drivers, misled, view, own, respPipe, now>>
        /\ d \in Table /\ d \in Pids /\ d \notin misled /\ Exchange(d)
    BY <1>0, <1>2, <1>6 DEF SendCommand, Typed, Awaiting, Running, Table
  <2>2. cmdPipe[d] = <<>> /\ Noticed(d)
    BY <2>1 DEF Exchange
  <2>3. CASE d = e
    <3>1. Awaiting(d)' /\ Noticed(d)'
      BY <2>1, <2>2, <2>3 DEF Awaiting, Noticed, Agree
    <3>2. cmdPipe'[d] = <<[verb |-> verb, timer |-> timer]>>
      BY <1>0, <2>1, <2>2, <2>3 DEF TypeOK
    <3>3. /\ Head(cmdPipe'[d]) = [verb |-> verb, timer |-> timer]
          /\ Tail(cmdPipe'[d]) = <<>> /\ cmdPipe'[d] # <<>>
      BY <3>2
    <3>4. [verb |-> verb, timer |-> timer] = [verb |-> req'.verb, timer |-> req'.timer]
      BY <2>1
    <3>5. Asked(d)'
      BY <3>3, <3>4 DEF Asked
    <3> QED
      BY <3>1, <3>5 DEF Exchange
  <2>4. CASE d # e
    <3>1. ~Awaiting(d)' /\ cmdPipe'[d] = cmdPipe[d]
      BY <1>0, <2>1, <2>4 DEF Awaiting, TypeOK
    <3> QED
      BY <1>0, <2>1, <3>1, Frame
  <2> QED
    BY <2>3, <2>4
<1>7. CASE GetDrivers
  <2>1. /\ pc = "command" /\ pc' = "scan" /\ ~Awaiting(d) /\ ~Awaiting(d)'
        /\ UNCHANGED <<drivers, misled, own, cmdPipe, respPipe, now>>
        /\ d \in Table /\ d \in Pids /\ d \notin misled /\ Exchange(d)
    BY <1>0, <1>2, <1>7 DEF GetDrivers, Typed, Awaiting, Running, Table
  <2>2. view'[d] = IF view[d].busy /\ now >= view[d].end_time
                   THEN [view[d] EXCEPT !.busy = FALSE] ELSE view[d]
    BY <1>7, <2>1 DEF GetDrivers
  <2>3. view[d] \in Statuses /\ own[d] \in Statuses
    BY <1>0, <2>1 DEF TypeOK
  <2>4. Agree(d) => Agree(d)'
    BY <1>0, <2>1, <2>2, <2>3 DEF Agree, Statuses
  <2> QED
    BY <2>1, <2>4 DEF Exchange, Noticed
<1>8. ASSUME NEW e \in Pids, HearDriver(e) PROVE Exchange(d)'
  <2>1. /\ UNCHANGED <<pc, drivers, req, misled, own, cmdPipe, now>>
        /\ view' = [view EXCEPT ![e] = Heard(@, Head(respPipe[e]), now)]
        /\ respPipe' = [respPipe EXCEPT ![e] = Tail(@)]
        /\ (Awaiting(d)' <=> Awaiting(d))
        /\ d \in Table /\ d \in Pids /\ d \notin misled /\ Exchange(d)
    BY <1>0, <1>2, <1>8 DEF HearDriver, Awaiting, Running, Table
  <2>2. CASE d = e
    BY <1>0, <1>8, <2>1, <2>2, HearExchange
  <2>3. CASE d # e
    <3>1. view'[d] = view[d] /\ respPipe'[d] = respPipe[d]
      BY <1>0, <2>1, <2>3 DEF TypeOK
    <3> QED
      BY <1>0, <2>1, <3>1, Frame
  <2> QED
    BY <2>2, <2>3
<1>9. ASSUME NEW e \in Pids, TakeAnswer(e) PROVE Exchange(d)'
  <2>1. /\ pc = "waitscan" /\ pc' = "scan" /\ req.pid = e
        /\ UNCHANGED <<drivers, own, cmdPipe, now>> /\ misled \subseteq misled'
        /\ respPipe' = [respPipe EXCEPT ![e] = Tail(@)]
        /\ d \in Table /\ d \in Pids /\ d \notin misled /\ Exchange(d)
    BY <1>0, <1>2, <1>9 DEF TakeAnswer, Expected, Running, Table
  <2>2. CASE d = e
    BY <1>0, <1>2, <1>9, <2>1, <2>2, TakeExchange
  <2>3. CASE d # e
    <3> DEFINE entry == IF req.idx \in DOMAIN drivers THEN {drivers[req.idx]} ELSE {}
    <3>1. misled' = misled \cup (IF Head(respPipe[e]).notice THEN {e} ELSE {})
                           \cup (IF entry = {e} THEN {} ELSE {e} \cup entry)
      BY <1>9 DEF TakeAnswer
    <3>2. d \notin entry
      BY <1>2, <2>3, <3>1
    <3>3. view'[d] = [view EXCEPT ![e] = Heard(@, Head(respPipe[e]), now)][d]
      <4>1. view'[d] = CASE d \in entry /\ req.verb = "status" ->
                               Heard([view EXCEPT ![e] = Heard(@, Head(respPipe[e]), now)][d],
                                     Head(respPipe[e]), now)
                         [] d \in entry /\ req.verb = "task" /\ Head(respPipe[e]).word = "OK" ->
                               BusyUntil(now + req.timer)
                         [] OTHER -> [view EXCEPT ![e] = Heard(@, Head(respPipe[e]), now)][d]
        BY <1>9, <2>1 DEF TakeAnswer
      <4> HIDE DEF entry
      <4> QED
        BY <3>2, <4>1
    <3>4. /\ view'[d] = view[d] /\ respPipe'[d] = respPipe[d]
          /\ ~Awaiting(d) /\ ~Awaiting(d)'
      BY <1>0, <2>1, <2>3, <3>3 DEF Awaiting, TypeOK
    <3> QED
      BY <1>0, <2>1, <3>4, Frame
  <2> QED
    BY <2>2, <2>3
<1> QED
  BY <1>3, <1>4, <1>5, <1>6, <1>7, <1>8, <1>9, AsideSteps
     DEF Next, Dispatcher, HandleCommand, ReadDrivers, SendTask, GetStatus

LEMMA InitExchange == Init => ExchangeInv
  BY DEF Init, ExchangeInv, Unborn, Table, Range

\* With nothing in transit the table shows a driver as it is, and ends no task early:
\* whatever commands are typed, at whatever times, and in whatever order the drivers
\* write, time out and die (taxi.c:78-143, 145-193, 271-364).
THEOREM TableTheorem == Spec => []TableAgrees
<1>1. TypeOK /\ ExchangeInv => TableAgrees
  <2> SUFFICES ASSUME TypeOK, ExchangeInv, NEW d \in Pids, d \notin misled, Settled(d)
               PROVE  /\ view[d].busy => own[d].busy
                      /\ own[d].busy /\ Listed(d) = "Available" => own[d].end_time <= now
                      /\ view[d].busy => view[d].end_time >= own[d].end_time
    BY DEF TableAgrees
  <2>1. Running /\ d \in Table /\ ~Awaiting(d) /\ respPipe[d] = <<>>
    BY DEF Settled, Running, Awaiting
  <2>2. Agree(d)
    BY <2>1 DEF ExchangeInv, Exchange, Noticed
  <2>3. now \in Int /\ view[d] \in Statuses /\ own[d] \in Statuses
    BY BoundsAssumption DEF TypeOK
  <2> QED
    BY <2>2, <2>3 DEF Agree, Listed, Statuses
<1>2. Spec => []ExchangeInv
  BY Invariance, InitExchange, ExchangeStep, PTL DEF Spec
<1>3. IInv => TypeOK
  BY DEF IInv
<1> QED
  BY <1>1, <1>2, <1>3, Invariance, PTL
=============================================================================
