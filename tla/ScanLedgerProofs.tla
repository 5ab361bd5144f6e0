-------------------------- MODULE ScanLedgerProofs --------------------------
(***************************************************************************)
(* What ScanLedger guarantees for every set of subscribers, scans and      *)
(* handlers, every choice of dates and limits, and an unbounded day; and,  *)
(* of ScanLedgerSerial, that the count is exact and the ledger a daily     *)
(* quota while handlers do not overlap.                                    *)
(***************************************************************************)
EXTENDS ScanLedgerSerial, FiniteSetTheorems, TLAPS

(* A row's usage and limit are numbers, and days only advance. *)
LEMMA RowFacts ==
    ASSUME NEW row \in Row, now \in Nat \ {0}
    PROVE  /\ Today \in Nat \ {0}
           /\ UsedToday(row) \in Nat
           /\ DailyLimit(row) \in Limits \cup {DefaultLimit}
           /\ DailyLimit(row) \in Nat \ {0}
  <1>1. Today \in Nat \ {0}
    BY ClockAssumption DEF Today
  <1>2. UsedToday(row) \in Nat
    BY DEF UsedToday, Row
  <1>3. DailyLimit(row) \in Limits \cup {DefaultLimit}
    BY DEF DailyLimit, Row
  <1>4. QED
    BY <1>1, <1>2, <1>3, LimitsAssumption

LEMMA DayAdvances ==
    ASSUME NEW n \in Nat, NEW d \in Nat \ {0}
    PROVE  n \div d <= (n + 1) \div d
  OBVIOUS

(* The rows the handlers put are rows. *)
LEMMA WrittenRows ==
    ASSUME now \in Nat \ {0}
    PROVE  /\ \A row \in Row : ChargedRow(row) \in Row /\ RefundedRow(row) \in Row
           /\ \A row \in Row \cup {NoRow} : SeenRow(row) \in Row
           /\ \A row \in Row \cup {NoRow}, until \in Dates, limit \in {0} \cup Limits :
                 GrantedRow(row, until, limit) \in Row
  <1>1. ASSUME NEW row \in Row PROVE ChargedRow(row) \in Row
    <2>1. UsedToday(row) + 1 \in Nat /\ Today \in Nat
      BY RowFacts
    <2>2. QED
      BY <2>1 DEF ChargedRow, Row
  <1>2. \A row \in Row : RefundedRow(row) \in Row
    BY DEF RefundedRow, Row
  <1>3. \A row \in Row \cup {NoRow} : SeenRow(row) \in Row
    BY DEF SeenRow, NewVisitor, Row
  <1>4. ASSUME NEW row \in Row \cup {NoRow}, NEW until \in Dates, NEW limit \in {0} \cup Limits
        PROVE  GrantedRow(row, until, limit) \in Row
    <2>1. SeenRow(row) \in Row
      BY <1>3
    <2>2. QED
      BY <2>1 DEF GrantedRow, Row
  <1>5. QED
    BY <1>1, <1>2, <1>3, <1>4

LEMMA InitTypeOK == Init => TypeOK
  BY DEF Init, TypeOK, Idle, Free

(* What an entry of call and scan is, told by its first field. *)
LEMMA Entries ==
    ASSUME TypeOK
    PROVE  /\ \A c \in Call : call[c].op # "idle" => call[c] \in InFlightCall
           /\ \A s \in Scan : scan[s].st # "free" => scan[s] \in Charged
  BY DEF TypeOK, Idle, Free, InFlightCall, Charged

LEMMA StepTypeOK == TypeOK /\ [Next]_vars => TypeOK'
  <1> SUFFICES ASSUME TypeOK, [Next]_vars PROVE TypeOK'
    OBVIOUS
  <1> USE DEF TypeOK
  <1>0. now \in Nat \ {0}
    OBVIOUS
  <1>1. ASSUME NEW c \in Call, NEW p \in Subscriber, NEW op \in {"authorize", "check", "set"},
               Read(c, op, p)
        PROVE  TypeOK'
    BY <1>1 DEF Read, InFlightCall
  <1>2. ASSUME NEW c \in Call, AuthorizeReject(c) \/ SetReject(c) PROVE TypeOK'
    BY <1>2 DEF AuthorizeReject, SetReject, Finish
  <1>3. ASSUME NEW c \in Call, NEW s \in Scan, AuthorizeCharge(c, s) PROVE TypeOK'
    <2>1. call[c] \in InFlightCall /\ call[c].row \in Row
      BY <1>3, Entries DEF AuthorizeCharge, Admissible, InFlightCall
    <2>2. ChargedRow(call[c].row) \in Row
      BY <1>0, <2>1, WrittenRows
    <2>3. call[c].pk \in Subscriber
      BY <2>1 DEF InFlightCall
    <2>4. scan' \in [Scan -> {Free} \cup Charged]
      BY <1>3, <2>3 DEF AuthorizeCharge, Charged
    <2>5. QED
      BY <1>3, <2>2, <2>3, <2>4 DEF AuthorizeCharge, Finish
  <1>4. ASSUME NEW c \in Call, CheckResume(c) PROVE TypeOK'
    <2>1. call[c].pk \in Subscriber /\ call[c].row \in Row \cup {NoRow}
      BY <1>4, Entries DEF CheckResume, InFlightCall
    <2>2. SeenRow(call[c].row) \in Row
      BY <1>0, <2>1, WrittenRows
    <2>3. QED
      BY <1>4, <2>1, <2>2 DEF CheckResume, Finish
  <1>5. ASSUME NEW c \in Call, NEW until \in Dates, NEW limit \in {0} \cup Limits,
               SetResume(c, until, limit)
        PROVE  TypeOK'
    <2>1. call[c].pk \in Subscriber /\ call[c].row \in Row \cup {NoRow}
      BY <1>5, Entries DEF SetResume, InFlightCall
    <2>2. GrantedRow(call[c].row, until, limit) \in Row
      BY <1>0, <2>1, WrittenRows
    <2>3. QED
      BY <1>5, <2>1, <2>2 DEF SetResume, Finish
  <1>6. ASSUME NEW p \in Subscriber, Remove(p) PROVE TypeOK'
    BY <1>6 DEF Remove
  <1>7. ASSUME NEW s \in Scan, Serve(s) PROVE TypeOK'
    <2>1. scan[s] \in Charged
      BY <1>7, Entries DEF Serve
    <2>2. QED
      BY <1>7, <2>1 DEF Serve, Charged
  <1>7a. ASSUME NEW s \in Scan, Lose(s) PROVE TypeOK'
    <2>1. scan[s] \in Charged
      BY <1>7a, Entries DEF Lose
    <2>2. QED
      BY <1>7a, <2>1 DEF Lose, Charged
  <1>8. ASSUME NEW s \in Scan, RefundRead(s) PROVE TypeOK'
    <2>1. scan[s] \in Charged /\ subs[scan[s].pk] \in Row \cup {NoRow}
      BY <1>8, Entries DEF RefundRead, Charged
    <2>2. QED
      BY <1>8, <2>1 DEF RefundRead, Charged
  <1>9. ASSUME NEW s \in Scan, RefundResume(s) PROVE TypeOK'
    <2>1. scan[s] \in Charged
      BY <1>9, Entries DEF RefundResume
    <2>2. Refundable(scan[s].row) => RefundedRow(scan[s].row) \in Row
      BY <1>0, <2>1, WrittenRows DEF Refundable, Charged
    <2>3. subs' \in [Subscriber -> Row \cup {NoRow}]
      BY <1>9, <2>1, <2>2 DEF RefundResume
    <2>4. scan' \in [Scan -> {Free} \cup Charged]
      BY <1>9, <2>1 DEF RefundResume, Charged
    <2>5. QED
      BY <1>9, <2>3, <2>4 DEF RefundResume
  <1>10. ASSUME Reload PROVE TypeOK'
    <2>1. \A s \in Scan : scan'[s] \in {Free} \cup Charged
      BY <1>10, Entries DEF Reload, Charged
    <2>2. scan' \in [Scan -> {Free} \cup Charged]
      BY <1>10, <2>1 DEF Reload
    <2>3. QED
      BY <1>10, <2>2 DEF Reload
  <1>11. ASSUME Tick PROVE TypeOK'
    BY <1>11 DEF Tick
  <1>12. ASSUME UNCHANGED vars PROVE TypeOK'
    BY <1>12 DEF vars
  <1>13. QED
    BY <1>1, <1>2, <1>3, <1>4, <1>5, <1>6, <1>7, <1>7a, <1>8, <1>9, <1>10, <1>11, <1>12
       DEF Next, AuthorizeRead, CheckRead, SetRead

(* The state is well typed. *)
THEOREM TypeCorrect == Spec => []TypeOK
  BY InitTypeOK, StepTypeOK, PTL DEF Spec

-----------------------------------------------------------------------------

LEMMA StepAccess == TypeOK /\ AccessOnlyByGrant /\ [Next]_vars => AccessOnlyByGrant'
  <1> SUFFICES ASSUME TypeOK, AccessOnlyByGrant, [Next]_vars PROVE AccessOnlyByGrant'
    OBVIOUS
  <1> USE DEF AccessOnlyByGrant
  <1>1. ASSUME NEW c \in Call, NEW p \in Subscriber, NEW op \in {"authorize", "check", "set"},
               Read(c, op, p)
        PROVE  AccessOnlyByGrant'
    BY <1>1 DEF Read, TypeOK
  <1>2. ASSUME NEW c \in Call, AuthorizeReject(c) \/ SetReject(c) PROVE AccessOnlyByGrant'
    BY <1>2 DEF AuthorizeReject, SetReject, Finish, TypeOK
  <1>3. ASSUME NEW c \in Call, NEW s \in Scan, AuthorizeCharge(c, s) PROVE AccessOnlyByGrant'
    <2>1. call[c] \in InFlightCall /\ call[c] # Idle
      BY <1>3, Entries DEF AuthorizeCharge, Idle
    <2>2. call[c].row \in Row /\ call[c].row.until # 0 /\ call[c].row # NoRow
      BY <1>3, <2>1 DEF AuthorizeCharge, Admissible, InFlightCall, TypeOK, Row
    <2>3. call[c].pk \in granted
      BY <2>1, <2>2
    <2>4. QED
      BY <1>3, <2>3 DEF AuthorizeCharge, Finish, TypeOK
  <1>4. ASSUME NEW c \in Call, CheckResume(c) PROVE AccessOnlyByGrant'
    <2>1. call[c] \in InFlightCall /\ call[c] # Idle
      BY <1>4, Entries DEF CheckResume, Idle
    <2>2. SeenRow(call[c].row).until # 0 => call[c].pk \in granted
      BY <2>1 DEF SeenRow, NewVisitor
    <2>3. QED
      BY <1>4, <2>2 DEF CheckResume, Finish, TypeOK
  <1>5. ASSUME NEW c \in Call, NEW until \in Dates, NEW limit \in {0} \cup Limits,
               SetResume(c, until, limit)
        PROVE  AccessOnlyByGrant'
    BY <1>5 DEF SetResume, Finish, TypeOK
  <1>6. ASSUME NEW p \in Subscriber, Remove(p) PROVE AccessOnlyByGrant'
    BY <1>6 DEF Remove, TypeOK
  <1>7. ASSUME NEW s \in Scan, Serve(s) \/ Lose(s) \/ RefundRead(s) PROVE AccessOnlyByGrant'
    <2>1. scan[s] \in Charged /\ scan[s] # Free
      BY <1>7, Entries DEF Serve, Lose, RefundRead, Free
    <2>2. scan'[s].pk = scan[s].pk /\ \A t \in Scan \ {s} : scan'[t] = scan[t]
      BY <1>7, <2>1 DEF Serve, Lose, RefundRead, Charged, TypeOK
    <2>3. QED
      BY <1>7, <2>1, <2>2 DEF Serve, Lose, RefundRead, TypeOK
  <1>8. ASSUME NEW s \in Scan, RefundResume(s) PROVE AccessOnlyByGrant'
    <2>1. scan[s] \in Charged /\ scan[s] # Free
      BY <1>8, Entries DEF RefundResume, Free
    <2>2. scan'[s].pk = scan[s].pk /\ \A t \in Scan \ {s} : scan'[t] = scan[t]
      BY <1>8, <2>1 DEF RefundResume, Charged, TypeOK
    <2>3. scan[s].pk \in granted
      BY <2>1
    <2>4. subs' = subs \/ \A p \in Subscriber \ {scan[s].pk} : subs'[p] = subs[p]
      BY <1>8 DEF RefundResume, TypeOK
    <2>5. QED
      BY <1>8, <2>1, <2>2, <2>3, <2>4 DEF RefundResume, TypeOK
  <1>9. ASSUME Reload PROVE AccessOnlyByGrant'
    <2>1. ASSUME NEW s \in Scan, scan[s] = Free PROVE scan'[s] = Free
      <3>1. scan[s].st \notin {"charged", "refunding"}
        BY <2>1 DEF Free
      <3>2. QED
        BY <1>9, <2>1, <3>1 DEF Reload
    <2>2. \A s \in Scan : scan[s] # Free => scan'[s].pk = scan[s].pk
      BY <1>9 DEF Reload, TypeOK, Charged
    <2>3. \A c \in Call : call'[c] = Idle
      BY <1>9 DEF Reload
    <2>4. subs' = subs /\ granted' = granted
      BY <1>9 DEF Reload
    <2>5. QED
      BY <2>1, <2>2, <2>3, <2>4
  <1>10. ASSUME Tick \/ UNCHANGED vars PROVE AccessOnlyByGrant'
    BY <1>10 DEF Tick, vars
  <1>11. QED
    BY <1>1, <1>2, <1>3, <1>4, <1>5, <1>6, <1>7, <1>8, <1>9, <1>10
       DEF Next, AuthorizeRead, CheckRead, SetRead

(* Nobody is let in, by any interleaving, whom the operator never granted. *)
THEOREM AccessTheorem == Spec => []AccessOnlyByGrant
  <1>1. Init => AccessOnlyByGrant
    BY DEF Init, AccessOnlyByGrant, Idle, Free
  <1>2. QED
    BY <1>1, InitTypeOK, StepTypeOK, StepAccess, PTL DEF Spec

-----------------------------------------------------------------------------

(* What a viewer is told and what a request gets are the same decision. *)
THEOREM AnswersTheorem == Spec => []AnswersAgree
  <1>1. TypeOK => AnswersAgree
    <2> SUFFICES ASSUME TypeOK, NEW row \in HeldRows
                 PROVE  (CusucosRemaining(row) > 0) <=> Admissible(row)
      BY DEF AnswersAgree
    <2>1. row \in Row /\ row # NoRow
      BY NoRowAssumption DEF TypeOK, HeldRows, InFlightCall, Charged
    <2>2. UsedToday(row) \in Nat /\ DailyLimit(row) \in Nat \ {0} /\ now \in Nat \ {0}
      BY <2>1, RowFacts DEF TypeOK
    <2>3. row.until \in Nat
      <3>1. row.until = 0 \/ row.until \in Dates
        BY <2>1 DEF Row
      <3>2. \A d \in Dates : d \in Nat
        BY DatesAssumption
      <3>3. QED
        BY <3>1, <3>2
    <2>4. QED
      BY <2>1, <2>2, <2>3 DEF CusucosRemaining, Admissible, IsActive
  <1>2. QED
    BY <1>1, TypeCorrect, PTL

-----------------------------------------------------------------------------

InRange(row) ==
    /\ \E m \in Limits \cup {DefaultLimit} : row.used \in 0..m
    /\ row.usedDate <= Today

(* CounterInRange, place by place where a row is held. *)
RowsInRange ==
    /\ \A p \in Subscriber : subs[p] # NoRow => InRange(subs[p])
    /\ \A c \in Call : call[c] # Idle /\ call[c].row # NoRow => InRange(call[c].row)
    /\ \A s \in Scan : scan[s] # Free /\ scan[s].row # NoRow => InRange(scan[s].row)

LEMMA RangeIsHeld == RowsInRange => CounterInRange
  BY DEF RowsInRange, CounterInRange, HeldRows, InRange

(* What the handlers put is in range when what they have read is: a charge *)
(* is let through only under the row's own limit.                          *)
LEMMA WrittenInRange ==
    ASSUME now \in Nat \ {0}
    PROVE  /\ \A row \in Row : InRange(row) /\ Admissible(row) => InRange(ChargedRow(row))
           /\ \A row \in Row : InRange(row) => InRange(RefundedRow(row))
           /\ \A row \in Row \cup {NoRow} : (row # NoRow => InRange(row)) => InRange(SeenRow(row))
           /\ \A row \in Row \cup {NoRow}, until \in Dates, limit \in {0} \cup Limits :
                 (row # NoRow => InRange(row)) => InRange(GrantedRow(row, until, limit))
  <1>0. Today \in Nat \ {0}
    BY RowFacts, NoRowAssumption, ClockAssumption DEF Today
  <1>1. ASSUME NEW row \in Row, Admissible(row) PROVE InRange(ChargedRow(row))
    <2>1. /\ UsedToday(row) \in Nat /\ DailyLimit(row) \in Nat
          /\ DailyLimit(row) \in Limits \cup {DefaultLimit}
      BY RowFacts
    <2>2. UsedToday(row) + 1 \in 0..DailyLimit(row)
      BY <1>1, <2>1 DEF Admissible
    <2>3. ChargedRow(row).used = UsedToday(row) + 1 /\ ChargedRow(row).usedDate = Today
      BY DEF ChargedRow, Row
    <2>4. QED
      BY <1>0, <2>1, <2>2, <2>3 DEF InRange
  <1>2. ASSUME NEW row \in Row, InRange(row) PROVE InRange(RefundedRow(row))
    <2>1. PICK m \in Limits \cup {DefaultLimit} : row.used \in 0..m
      BY <1>2 DEF InRange
    <2>2. m \in Nat
      BY LimitsAssumption
    <2>3. RefundedRow(row).used \in 0..m /\ RefundedRow(row).usedDate = row.usedDate
      BY <2>1, <2>2 DEF RefundedRow, Row
    <2>4. QED
      BY <1>2, <2>3 DEF InRange
  <1>3. ASSUME NEW row \in Row \cup {NoRow}, row # NoRow => InRange(row)
        PROVE  InRange(SeenRow(row))
    <2>1. InRange(NewVisitor)
      <3>1. 0 \in 0..DefaultLimit
        BY LimitsAssumption
      <3>2. QED
        BY <1>0, <3>1 DEF InRange, NewVisitor
    <2>2. QED
      BY <1>3, <2>1 DEF SeenRow
  <1>4. ASSUME NEW row \in Row \cup {NoRow}, NEW until \in Dates, NEW limit \in {0} \cup Limits,
               row # NoRow => InRange(row)
        PROVE  InRange(GrantedRow(row, until, limit))
    <2>1. InRange(SeenRow(row)) /\ SeenRow(row) \in Row
      BY <1>3, <1>4, WrittenRows
    <2>2. /\ GrantedRow(row, until, limit).used = SeenRow(row).used
          /\ GrantedRow(row, until, limit).usedDate = SeenRow(row).usedDate
      BY <2>1 DEF GrantedRow, Row
    <2>3. QED
      BY <2>1, <2>2 DEF InRange
  <1>5. QED
    BY <1>1, <1>2, <1>3, <1>4

LEMMA StepRange == TypeOK /\ RowsInRange /\ [Next]_vars => RowsInRange'
  <1> SUFFICES ASSUME TypeOK, RowsInRange, [Next]_vars PROVE RowsInRange'
    OBVIOUS
  <1>0. now \in Nat \ {0}
    BY DEF TypeOK
  <1>a. ASSUME now' = now PROVE \A row : InRange(row)' <=> InRange(row)
    BY <1>a DEF InRange, Today
  <1>1. ASSUME NEW c \in Call, NEW p \in Subscriber, NEW op \in {"authorize", "check", "set"},
               Read(c, op, p)
        PROVE  RowsInRange'
    BY <1>1, <1>a DEF Read, RowsInRange, TypeOK
  <1>2. ASSUME NEW c \in Call, AuthorizeReject(c) \/ SetReject(c) PROVE RowsInRange'
    BY <1>2, <1>a DEF AuthorizeReject, SetReject, Finish, RowsInRange, TypeOK
  <1>3. ASSUME NEW c \in Call, NEW s \in Scan, AuthorizeCharge(c, s) PROVE RowsInRange'
    <2>1. call[c] \in InFlightCall /\ call[c] # Idle
      BY <1>3, Entries DEF AuthorizeCharge, Idle
    <2>2. call[c].row \in Row /\ call[c].row # NoRow
      BY <1>3, <2>1 DEF AuthorizeCharge, Admissible, InFlightCall
    <2>3. InRange(ChargedRow(call[c].row))
      BY <1>0, <1>3, <2>1, <2>2, WrittenInRange DEF RowsInRange, AuthorizeCharge
    <2>4. \A t \in Scan : scan'[t] = scan[t] \/ scan'[t].row = NoRow
      BY <1>3 DEF AuthorizeCharge, TypeOK
    <2>5. \A p \in Subscriber : subs'[p] = subs[p] \/ subs'[p] = ChargedRow(call[c].row)
      BY <1>3 DEF AuthorizeCharge, TypeOK
    <2>6. \A d \in Call : call'[d] = call[d] \/ call'[d] = Idle
      BY <1>3 DEF AuthorizeCharge, Finish, TypeOK
    <2>7. now' = now
      BY <1>3 DEF AuthorizeCharge
    <2>8. QED
      BY <1>a, <2>3, <2>4, <2>5, <2>6, <2>7 DEF RowsInRange
  <1>4. ASSUME NEW c \in Call, CheckResume(c) PROVE RowsInRange'
    <2>1. call[c].row \in Row \cup {NoRow} /\ call[c] # Idle
      BY <1>4, Entries DEF CheckResume, InFlightCall, Idle
    <2>2. InRange(SeenRow(call[c].row))
      BY <1>0, <2>1, WrittenInRange DEF RowsInRange
    <2>3. QED
      BY <1>4, <1>a, <2>2 DEF CheckResume, Finish, RowsInRange, TypeOK
  <1>5. ASSUME NEW c \in Call, NEW until \in Dates, NEW limit \in {0} \cup Limits,
               SetResume(c, until, limit)
        PROVE  RowsInRange'
    <2>1. call[c].row \in Row \cup {NoRow} /\ call[c] # Idle
      BY <1>5, Entries DEF SetResume, InFlightCall, Idle
    <2>2. InRange(GrantedRow(call[c].row, until, limit))
      BY <1>0, <2>1, WrittenInRange DEF RowsInRange
    <2>3. QED
      BY <1>5, <1>a, <2>2 DEF SetResume, Finish, RowsInRange, TypeOK
  <1>6. ASSUME NEW p \in Subscriber, Remove(p) PROVE RowsInRange'
    BY <1>6, <1>a DEF Remove, RowsInRange, TypeOK
  <1>7. ASSUME NEW s \in Scan, Serve(s) PROVE RowsInRange'
    <2>1. scan[s] # Free
      BY <1>7 DEF Serve, Free
    <2>2. scan'[s].row = scan[s].row /\ \A t \in Scan \ {s} : scan'[t] = scan[t]
      BY <1>7, <2>1, Entries DEF Serve, Charged, TypeOK
    <2>3. subs' = subs /\ call' = call /\ now' = now
      BY <1>7 DEF Serve
    <2>4. QED
      BY <1>a, <2>1, <2>2, <2>3 DEF RowsInRange
  <1>7a. ASSUME NEW s \in Scan, Lose(s) PROVE RowsInRange'
    <2>1. scan[s] \in Charged
      BY <1>7a, Entries DEF Lose
    <2>2. scan'[s].row = NoRow /\ \A t \in Scan \ {s} : scan'[t] = scan[t]
      BY <1>7a, <2>1 DEF Lose, Charged, TypeOK
    <2>3. subs' = subs /\ call' = call /\ now' = now
      BY <1>7a DEF Lose
    <2>4. QED
      BY <1>a, <2>1, <2>2, <2>3 DEF RowsInRange
  <1>8. ASSUME NEW s \in Scan, RefundRead(s) PROVE RowsInRange'
    <2>1. scan[s] \in Charged /\ scan[s].pk \in Subscriber
      BY <1>8, Entries DEF RefundRead, Charged
    <2>2. scan'[s].row = subs[scan[s].pk] /\ \A t \in Scan \ {s} : scan'[t] = scan[t]
      BY <1>8, <2>1 DEF RefundRead, Charged, TypeOK
    <2>3. subs' = subs /\ call' = call /\ now' = now
      BY <1>8 DEF RefundRead
    <2>4. QED
      BY <1>a, <2>1, <2>2, <2>3 DEF RowsInRange
  <1>9. ASSUME NEW s \in Scan, RefundResume(s) PROVE RowsInRange'
    <2>1. scan[s] \in Charged /\ scan[s] # Free
      BY <1>9, Entries DEF RefundResume, Free
    <2>2. Refundable(scan[s].row) => InRange(RefundedRow(scan[s].row))
      BY <1>0, <2>1, WrittenInRange DEF RowsInRange, Refundable, Charged
    <2>3. \A p \in Subscriber : subs'[p] = subs[p]
             \/ (Refundable(scan[s].row) /\ subs'[p] = RefundedRow(scan[s].row))
      BY <1>9 DEF RefundResume, TypeOK
    <2>4. scan'[s].row = NoRow /\ \A t \in Scan \ {s} : scan'[t] = scan[t]
      BY <1>9, <2>1 DEF RefundResume, Charged, TypeOK
    <2>5. call' = call /\ now' = now
      BY <1>9 DEF RefundResume
    <2>6. QED
      BY <1>a, <2>2, <2>3, <2>4, <2>5 DEF RowsInRange
  <1>10. ASSUME Reload PROVE RowsInRange'
    <2>1. \A s \in Scan : scan'[s] = scan[s] \/ scan'[s].row = NoRow
      BY <1>10, Entries DEF Reload, Charged
    <2>2. /\ \A c \in Call : call'[c] = Idle
          /\ subs' = subs /\ now' = now
      BY <1>10 DEF Reload
    <2>3. QED
      BY <1>a, <2>1, <2>2 DEF RowsInRange
  <1>11. ASSUME Tick PROVE RowsInRange'
    <2>1. now' = now + 1 /\ subs' = subs /\ call' = call /\ scan' = scan
      BY <1>11 DEF Tick
    <2>2. Today \in Nat /\ Today' \in Nat /\ Today <= Today'
      <3>1. now \div DayLength <= (now + 1) \div DayLength
        BY <1>0, DayAdvances, ClockAssumption
      <3>2. now \div DayLength \in Nat /\ (now + 1) \div DayLength \in Nat
        BY <1>0, ClockAssumption
      <3>3. QED
        BY <2>1, <3>1, <3>2 DEF Today
    <2>3. ASSUME NEW row \in Row, InRange(row) PROVE InRange(row)'
      <3>1. row.usedDate \in Nat
        BY DEF Row
      <3>2. QED
        BY <2>2, <2>3, <3>1 DEF InRange
    <2>4. \A p \in Subscriber : subs[p] # NoRow => subs[p] \in Row
      BY DEF TypeOK
    <2>5. \A c \in Call : call[c] # Idle /\ call[c].row # NoRow => call[c].row \in Row
      BY DEF TypeOK, InFlightCall
    <2>6. \A s \in Scan : scan[s] # Free /\ scan[s].row # NoRow => scan[s].row \in Row
      BY DEF TypeOK, Charged
    <2>7. QED
      BY <2>1, <2>3, <2>4, <2>5, <2>6 DEF RowsInRange
  <1>12. ASSUME UNCHANGED vars PROVE RowsInRange'
    BY <1>12, <1>a DEF vars, RowsInRange
  <1>13. QED
    BY <1>1, <1>2, <1>3, <1>4, <1>5, <1>6, <1>7, <1>7a, <1>8, <1>9, <1>10, <1>11, <1>12
       DEF Next, AuthorizeRead, CheckRead, SetRead

(* Stale charges, visits, grants and refunds keep every count within the   *)
(* limits and the calendar.                                                *)
THEOREM RangeTheorem == Spec => []CounterInRange
  <1>1. Init => RowsInRange
    BY DEF Init, RowsInRange, Idle, Free
  <1>2. QED
    BY <1>1, InitTypeOK, StepTypeOK, StepRange, RangeIsHeld, PTL DEF Spec
-----------------------------------------------------------------------------

(* While no two handlers overlap: what the one in flight has read is what  *)
(* is stored, bills are dated no later than today, only a refunded scan    *)
(* was paid back, and one whose subscriber has no row has no bill.         *)
OneInFlight == \A h, k \in InFlight : h = k

BillsOK == bill \in [Scan -> [on: 0..Today, back: 0..Today]]

RowsAreStored ==
    /\ \A c \in Call : call[c] # Idle => call[c].row = subs[call[c].pk]
    /\ \A s \in Scan : scan[s].st = "refunding" => scan[s].row = subs[scan[s].pk]

BillsSettle ==
    \A s \in Scan :
        /\ scan[s].st # "refunded" => bill[s].back = 0
        /\ scan[s] # Free /\ subs[scan[s].pk] = NoRow => bill[s] = Unbilled

SerialInv == ~ tangled => OneInFlight /\ BillsOK /\ RowsAreStored /\ BillsSettle

(* One step of a scan: it is charged, or stays whose it was.               *)
LEMMA ScanMoves ==
    ASSUME TypeOK, [Next]_vars, NEW s \in Scan
    PROVE  \/ scan'[s] = scan[s]
           \/ /\ scan[s] = Free /\ scan'[s] # Free
              /\ scan'[s].st = "charged" /\ scan'[s].pk \in Subscriber
              /\ subs'[scan'[s].pk] # NoRow /\ now' = now
           \/ /\ scan[s] # Free /\ scan'[s] # Free /\ now' = now
              /\ scan'[s].pk = scan[s].pk /\ scan[s].st # "refunded"
              /\ scan'[s].st = "refunding" => scan'[s].row = subs[scan[s].pk]
  <1>1. ASSUME NEW c \in Call, NEW t \in Scan, AuthorizeCharge(c, t), s = t
        PROVE  /\ scan[s] = Free /\ scan'[s] # Free
               /\ scan'[s].st = "charged" /\ scan'[s].pk \in Subscriber
               /\ subs'[scan'[s].pk] # NoRow /\ now' = now
    <2>1. call[c] \in InFlightCall /\ call[c].row \in Row /\ call[c].pk \in Subscriber
      BY <1>1, Entries DEF AuthorizeCharge, Admissible, InFlightCall
    <2>2. ChargedRow(call[c].row) \in Row
      BY <2>1, WrittenRows DEF TypeOK
    <2>3. scan'[s] = [st |-> "charged", pk |-> call[c].pk, row |-> NoRow]
      BY <1>1 DEF AuthorizeCharge, TypeOK
    <2>4. subs'[call[c].pk] = ChargedRow(call[c].row)
      BY <1>1, <2>1 DEF AuthorizeCharge, TypeOK
    <2>5. scan'[s].st # "free"
      BY <2>3
    <2>6. QED
      BY <1>1, <2>1, <2>2, <2>3, <2>4, <2>5, NoRowAssumption DEF AuthorizeCharge, Free
  <1>2. ASSUME NEW t \in Scan, Serve(t) \/ Lose(t) \/ RefundRead(t) \/ RefundResume(t), s = t
        PROVE  /\ scan[s] # Free /\ scan'[s] # Free /\ now' = now
               /\ scan'[s].pk = scan[s].pk /\ scan[s].st # "refunded"
               /\ scan'[s].st = "refunding" => scan'[s].row = subs[scan[s].pk]
    <2>1. scan[s] \in Charged /\ scan[s].st # "refunded" /\ scan[s] # Free
      BY <1>2, Entries DEF Serve, Lose, RefundRead, RefundResume, Free
    <2>2. /\ scan'[s].pk = scan[s].pk /\ scan'[s].st # "free"
          /\ scan'[s].st = "refunding" => scan'[s].row = subs[scan[s].pk]
      BY <1>2, <2>1 DEF Serve, Lose, RefundRead, RefundResume, Charged, TypeOK
    <2>3. QED
      BY <1>2, <2>1, <2>2 DEF Serve, Lose, RefundRead, RefundResume, Free
  <1>3. ASSUME Reload, scan'[s] # scan[s]
        PROVE  /\ scan[s] # Free /\ scan'[s] # Free /\ now' = now
               /\ scan'[s].pk = scan[s].pk /\ scan[s].st # "refunded"
               /\ scan'[s].st # "refunding"
    <2>1. scan[s].st \in {"charged", "refunding"}
          /\ scan'[s] = [scan[s] EXCEPT !.st = "lost", !.row = NoRow]
      BY <1>3 DEF Reload
    <2>2. scan[s] \in Charged
      BY <2>1, Entries
    <2>3. scan'[s].pk = scan[s].pk /\ scan'[s].st = "lost"
      BY <2>1, <2>2 DEF Charged
    <2>4. scan[s] # Free /\ scan'[s] # Free
      <3>1. scan[s].st # "free" /\ scan'[s].st # "free"
        BY <2>1, <2>3
      <3>2. QED
        BY <3>1 DEF Free
    <2>5. scan[s].st # "refunded" /\ scan'[s].st # "refunding" /\ now' = now
      BY <1>3, <2>1, <2>3 DEF Reload
    <2>6. QED
      BY <2>3, <2>4, <2>5
  <1>4. QED
    BY <1>1, <1>2, <1>3
       DEF Next, vars, TypeOK, AuthorizeRead, CheckRead, SetRead, Read, AuthorizeReject, CheckResume,
           SetReject, AuthorizeCharge, SetResume, Remove, Serve, Lose, RefundRead, RefundResume, Tick

(* And of a handler: it has just read its row, or has ended, or waits.     *)
LEMMA CallMoves ==
    ASSUME TypeOK, [Next]_vars, NEW c \in Call
    PROVE  call'[c] = call[c] \/ call'[c] = Idle \/ call'[c].row = subs[call'[c].pk]
  <1>1. ASSUME NEW d \in Call, NEW p \in Subscriber, NEW op, Read(d, op, p)
        PROVE  call'[c] = call[c] \/ call'[c].row = subs[call'[c].pk]
    BY <1>1 DEF Read, TypeOK
  <1>2. ASSUME NEW d \in Call, Finish(d) PROVE call'[c] = call[c] \/ call'[c] = Idle
    BY <1>2 DEF Finish, TypeOK
  <1>3. CASE Reload
    BY <1>3 DEF Reload
  <1>4. QED
    BY <1>1, <1>2, <1>3
       DEF Next, vars, AuthorizeRead, CheckRead, SetRead, AuthorizeReject, CheckResume, SetReject,
           AuthorizeCharge, SetResume, Remove, Serve, Lose, RefundRead, RefundResume, Tick

(* What a step that keeps the handlers apart does to the histories. *)
LEMMA Apart ==
    ASSUME TypeOK, SerialInv, SerialNext, ~ tangled'
    PROVE  /\ ~ tangled /\ OneInFlight /\ BillsOK /\ RowsAreStored /\ BillsSettle
           /\ OneInFlight'
           /\ bill' = [s \in Scan |-> Billed(s)]
           /\ \A c \in Call : call'[c] # Idle => subs' = subs
           /\ \A s \in Scan : scan'[s].st = "refunding" => subs' = subs
  <1>1. ~ tangled /\ OneAtATime /\ bill' = [s \in Scan |-> Billed(s)]
    BY DEF SerialNext, Account
  <1>2. OneInFlight'
    BY <1>1 DEF OneAtATime, OneInFlight
  <1>3. \A c \in Call : call'[c] # Idle => <<"request", c>> \in InFlight'
    BY DEF InFlight
  <1>4. \A s \in Scan : scan'[s].st = "refunding" => <<"refund", s>> \in InFlight'
    BY DEF InFlight
  <1>5. QED
    BY <1>1, <1>2, <1>3, <1>4 DEF SerialInv, OneAtATime

(* The rows in hand stay the stored ones. *)
LEMMA StepStored ==
    ASSUME TypeOK, SerialInv, SerialNext, ~ tangled'
    PROVE  RowsAreStored'
  <1>1. ASSUME NEW c \in Call, call'[c] # Idle PROVE call'[c].row = subs'[call'[c].pk]
    <2>1. subs' = subs /\ RowsAreStored
      BY <1>1, Apart
    <2>2. call'[c] = call[c] \/ call'[c].row = subs[call'[c].pk]
      BY <1>1, CallMoves DEF SerialNext
    <2>3. QED
      BY <1>1, <2>1, <2>2 DEF RowsAreStored
  <1>2. ASSUME NEW s \in Scan, scan'[s].st = "refunding" PROVE scan'[s].row = subs'[scan'[s].pk]
    <2>1. subs' = subs /\ RowsAreStored
      BY <1>2, Apart
    <2>2. scan'[s] = scan[s] \/ scan'[s].row = subs[scan'[s].pk]
      BY <1>2, ScanMoves DEF SerialNext
    <2>3. QED
      BY <1>2, <2>1, <2>2 DEF RowsAreStored
  <1>3. QED
    BY <1>1, <1>2 DEF RowsAreStored

(* Only a refund that changes the row pays a scan back, and leaves a row.  *)
LEMMA PaidBack ==
    ASSUME TypeOK, [Next]_vars, NEW s \in Scan,
           scan[s].st = "refunding", scan'[s].st = "refunded", subs' # subs
    PROVE  /\ RefundResume(s) /\ Refundable(scan[s].row)
           /\ scan[s] \in Charged /\ scan[s].row \in Row
           /\ subs' = [subs EXCEPT ![scan[s].pk] = RefundedRow(scan[s].row)]
           /\ RefundedRow(scan[s].row) \in Row
  <1>1. RefundResume(s)
    <2>1. ASSUME NEW t \in Scan, NEW c \in Call, AuthorizeCharge(c, t) PROVE FALSE
      <3>1. scan'[t].st # "refunded" /\ \A u \in Scan \ {t} : scan'[u] = scan[u]
        BY <2>1 DEF AuthorizeCharge, TypeOK
      <3>2. QED
        BY <3>1
    <2>2. ASSUME NEW t \in Scan, RefundResume(t) PROVE t = s
      BY <2>2 DEF RefundResume, TypeOK
    <2>3. QED
      BY <2>1, <2>2
         DEF Next, vars, AuthorizeRead, CheckRead, SetRead, Read, AuthorizeReject, CheckResume,
             SetReject, SetResume, Remove, Serve, Lose, RefundRead, Reload, Tick
  <1>2. Refundable(scan[s].row) /\ subs' = [subs EXCEPT ![scan[s].pk] = RefundedRow(scan[s].row)]
    BY <1>1 DEF RefundResume
  <1>3. scan[s] \in Charged /\ scan[s].row \in Row
    BY <1>2, Entries DEF Refundable, Charged
  <1>4. QED
    BY <1>1, <1>2, <1>3, WrittenRows DEF TypeOK

LEMMA TodayAdvances ==
    ASSUME TypeOK, [Next]_vars
    PROVE  Today \in Nat \ {0} /\ Today' \in Nat \ {0} /\ Today <= Today'
  <1>1. now \in Nat \ {0} /\ now' \in {now, now + 1}
    BY DEF TypeOK, Next, vars, AuthorizeRead, CheckRead, SetRead, Read, AuthorizeReject, CheckResume,
           SetReject, AuthorizeCharge, SetResume, Remove, Serve, Lose, RefundRead, RefundResume, Reload, Tick
  <1>2. now \div DayLength <= (now + 1) \div DayLength
    BY <1>1, DayAdvances, ClockAssumption
  <1>3. now \div DayLength \in Nat /\ (now + 1) \div DayLength \in Nat
    BY <1>1, ClockAssumption
  <1>4. now' \div DayLength \in Nat /\ now \div DayLength <= now' \div DayLength
    <2>1. CASE now' = now
      BY <1>3, <2>1
    <2>2. CASE now' = now + 1
      BY <1>2, <1>3, <2>2
    <2>3. QED
      BY <1>1, <2>1, <2>2
  <1>5. QED
    BY <1>3, <1>4 DEF Today

(* Bills are dated, and settle as they should. *)
LEMMA StepBills ==
    ASSUME TypeOK, SerialInv, SerialNext, ~ tangled'
    PROVE  BillsOK' /\ BillsSettle'
  <1>1. /\ Today \in Nat \ {0} /\ Today' \in Nat \ {0} /\ Today <= Today'
        /\ BillsOK /\ BillsSettle /\ bill' = [s \in Scan |-> Billed(s)]
    BY TodayAdvances, Apart DEF SerialNext
  <1>2. ASSUME NEW s \in Scan PROVE Billed(s) \in [on: 0..Today', back: 0..Today']
    <2>1. bill[s] \in [on: 0..Today', back: 0..Today']
      BY <1>1 DEF BillsOK
    <2>2. QED
      BY <1>1, <2>1 DEF Billed, Unbilled
  <1>3. BillsOK'
    BY <1>1, <1>2 DEF BillsOK
  <1>4. ASSUME NEW s \in Scan, scan'[s].st # "refunded" PROVE bill'[s].back = 0
    <2>1. scan[s].st # "refunded"
      BY <1>4, ScanMoves DEF SerialNext, Free
    <2>2. QED
      BY <1>1, <1>4, <2>1 DEF Billed, Unbilled, BillsSettle
  <1>5. ASSUME NEW s \in Scan, scan'[s] # Free, subs'[scan'[s].pk] = NoRow
        PROVE  bill'[s] = Unbilled
    <2>1. scan[s] # Free /\ scan'[s].pk = scan[s].pk
      BY <1>5, ScanMoves DEF SerialNext
    <2>2. ~ (scan[s].st = "refunding" /\ scan'[s].st = "refunded" /\ subs' # subs)
      <3> SUFFICES ASSUME scan[s].st = "refunding", scan'[s].st = "refunded", subs' # subs
                   PROVE  FALSE
        OBVIOUS
      <3>1. /\ scan[s] \in Charged /\ RefundedRow(scan[s].row) \in Row
            /\ subs' = [subs EXCEPT ![scan[s].pk] = RefundedRow(scan[s].row)]
        BY PaidBack DEF SerialNext
      <3>2. subs'[scan[s].pk] \in Row
        BY <3>1 DEF Charged, TypeOK
      <3>3. QED
        BY <1>5, <2>1, <3>2, NoRowAssumption
    <2>3. Billed(s) = Unbilled
      BY <1>5, <2>1, <2>2 DEF Billed
    <2>4. QED
      BY <1>1, <2>3
  <1>6. QED
    BY <1>3, <1>4, <1>5 DEF BillsSettle

LEMMA StepSerial ==
    ASSUME TypeOK, SerialInv, [SerialNext]_serialVars
    PROVE  SerialInv'
  <1>1. CASE SerialNext
    BY <1>1, Apart, StepStored, StepBills DEF SerialInv
  <1>2. CASE UNCHANGED serialVars
    BY <1>2 DEF serialVars, vars, SerialInv, OneInFlight, InFlight, BillsOK, RowsAreStored,
                BillsSettle, Today
  <1>3. QED
    BY <1>1, <1>2
-----------------------------------------------------------------------------

(* CountMatchesScans for one subscriber. *)
Tally(p) ==
    /\ UsedToday(subs[p]) <= Cardinality(Live(p))
    /\ Cardinality(Live(p)) <= UsedToday(subs[p]) + Cardinality(Stray(p))

LEMMA Counts ==
    ASSUME NEW p
    PROVE  /\ IsFiniteSet(Live(p)) /\ Cardinality(Live(p)) \in Nat
           /\ IsFiniteSet(Stray(p)) /\ Cardinality(Stray(p)) \in Nat
  <1>1. Live(p) \in SUBSET Scan /\ Stray(p) \in SUBSET Scan
    BY DEF Live, Stray, ScansOf
  <1>2. IsFiniteSet(Live(p)) /\ IsFiniteSet(Stray(p))
    BY <1>1, ScanAssumption, FS_Subset
  <1>3. QED
    BY <1>2, FS_CardinalityType

LEMMA UsedTodayType == ASSUME TypeOK, NEW p \in Subscriber PROVE UsedToday(subs[p]) \in Nat
  BY RowFacts DEF TypeOK, UsedToday

(* A step that leaves p's count, scans and bills alone. *)
LEMMA SameTally ==
    ASSUME NEW p, Tally(p), now' = now,
           UsedToday(subs[p])' = UsedToday(subs[p]),
           \A s \in Scan : (scan'[s] # Free /\ scan'[s].pk = p) <=> (scan[s] # Free /\ scan[s].pk = p),
           \A s \in Scan : scan[s] # Free /\ scan[s].pk = p => bill'[s] = bill[s]
    PROVE  Tally(p)'
  <1>1. Today' = Today
    BY DEF Today
  <1>2. Live(p)' = Live(p) /\ Stray(p)' = Stray(p)
    BY <1>1 DEF Live, Stray, ScansOf
  <1>3. QED
    BY <1>2 DEF Tally

(* A bill changes only when its scan is charged or paid back, or its row   *)
(* disappears.                                                             *)
LEMMA KeptBill ==
    ASSUME TypeOK, SerialInv, SerialNext, ~ tangled', NEW s \in Scan, scan[s] # Free,
           subs'[scan[s].pk] = NoRow => subs[scan[s].pk] = NoRow,
           ~ (scan[s].st = "refunding" /\ scan'[s].st = "refunded" /\ subs' # subs)
    PROVE  bill'[s] = bill[s]
  <1>1. bill' = [t \in Scan |-> Billed(t)] /\ BillsSettle
    BY Apart
  <1>2. Billed(s) = bill[s]
    BY <1>1 DEF Billed, BillsSettle
  <1>3. QED
    BY <1>1, <1>2

LEMMA ChargeTally ==
    ASSUME TypeOK, SerialInv, SerialNext, ~ tangled', NEW p \in Subscriber, Tally(p),
           NEW c \in Call, NEW s \in Scan, AuthorizeCharge(c, s), call[c].pk = p
    PROVE  Tally(p)'
  <1>1. /\ call[c] \in InFlightCall /\ call[c] # Idle /\ call[c].row \in Row /\ call[c].row # NoRow
        /\ call[c].row = subs[p]
    BY Entries, Apart DEF AuthorizeCharge, Admissible, InFlightCall, RowsAreStored, Idle
  <1>2. /\ Today \in Nat \ {0} /\ Today' = Today /\ now' = now
        /\ UsedToday(subs[p]) \in Nat
    BY TodayAdvances, UsedTodayType DEF SerialNext, AuthorizeCharge, Today
  <1>3. /\ scan[s] = Free /\ scan'[s] = [st |-> "charged", pk |-> p, row |-> NoRow]
        /\ \A t \in Scan \ {s} : scan'[t] = scan[t]
        /\ subs' = [subs EXCEPT ![p] = ChargedRow(subs[p])]
    BY <1>1 DEF AuthorizeCharge, TypeOK
  <1>4. scan'[s] # Free /\ scan'[s].pk = p
    <2>1. scan'[s].st = "charged"
      BY <1>3
    <2>2. QED
      BY <1>3, <2>1 DEF Free
  <1>5. ChargedRow(subs[p]) \in Row /\ subs'[p] = ChargedRow(subs[p])
    BY <1>1, <1>3, WrittenRows DEF TypeOK
  <1>6. UsedToday(subs[p])' = UsedToday(subs[p]) + 1
    <2>1. subs'[p].used = UsedToday(subs[p]) + 1 /\ subs'[p].usedDate = Today
      BY <1>1, <1>5 DEF ChargedRow, Row
    <2>2. QED
      BY <1>2, <1>5, <2>1, NoRowAssumption DEF UsedToday
  <1>7. bill'[s] = [on |-> Today, back |-> 0]
    BY <1>3, <1>4, Apart DEF Billed
  <1>8. \A t \in Scan \ {s} : scan[t] # Free => bill'[t] = bill[t]
    <2> SUFFICES ASSUME NEW t \in Scan \ {s}, scan[t] # Free PROVE bill'[t] = bill[t]
      OBVIOUS
    <2>1. subs'[scan[t].pk] = NoRow => subs[scan[t].pk] = NoRow
      <3>1. scan[t].pk \in Subscriber
        BY DEF TypeOK, Charged
      <3>2. QED
        BY <1>3, <1>5, <3>1, NoRowAssumption DEF TypeOK
    <2>2. QED
      BY <1>3, <2>1, KeptBill
  <1>9. s \notin Live(p) /\ Live(p)' = Live(p) \cup {s} /\ Stray(p)' = Stray(p)
    BY <1>2, <1>3, <1>4, <1>7, <1>8 DEF Live, Stray, ScansOf
  <1>10. Cardinality(Live(p)') = Cardinality(Live(p)) + 1
    BY <1>9, Counts, FS_AddElement
  <1>11. QED
    BY <1>2, <1>6, <1>9, <1>10, Counts DEF Tally

LEMMA RefundTally ==
    ASSUME TypeOK, SerialInv, SerialNext, ~ tangled', NEW p \in Subscriber, Tally(p),
           NEW s \in Scan, RefundResume(s), scan[s].pk = p, subs' # subs
    PROVE  Tally(p)'
  <1>1. scan[s].st = "refunding" /\ scan'[s].st = "refunded" /\ scan[s] # Free
    <2>1. scan[s] \in Charged
      BY Entries DEF RefundResume
    <2>2. QED
      BY <2>1 DEF RefundResume, Charged, TypeOK, Free
  <1>2. /\ Refundable(scan[s].row) /\ scan[s] \in Charged /\ scan[s].row \in Row
        /\ subs' = [subs EXCEPT ![p] = RefundedRow(scan[s].row)]
        /\ RefundedRow(scan[s].row) \in Row
    BY <1>1, PaidBack DEF SerialNext
  <1>3. scan[s].row = subs[p] /\ bill[s].back = 0
    BY <1>1, Apart DEF RowsAreStored, BillsSettle
  <1>4. /\ Today \in Nat \ {0} /\ Today' = Today
        /\ UsedToday(subs[p]) \in Nat
    BY TodayAdvances, UsedTodayType DEF SerialNext, RefundResume, Today
  <1>5. subs'[p] = RefundedRow(subs[p]) /\ subs[p] \in Row /\ subs[p].usedDate = Today
    BY <1>2, <1>3 DEF TypeOK, Refundable
  <1>6. subs[p].used > 0
    <2> SUFFICES ASSUME ~ subs[p].used > 0 PROVE FALSE
      OBVIOUS
    <2>1. subs[p].used = 0
      BY <1>5 DEF Row
    <2>2. RefundedRow(subs[p]) = subs[p]
      BY <1>5, <2>1 DEF RefundedRow, Row
    <2>3. QED
      BY <1>2, <1>3, <2>2 DEF TypeOK
  <1>7. UsedToday(subs[p])' = UsedToday(subs[p]) - 1 /\ UsedToday(subs[p]) > 0
    <2>1. subs'[p].used = subs[p].used - 1 /\ subs'[p].usedDate = Today
      BY <1>5, <1>6 DEF RefundedRow, Row
    <2>2. subs'[p] # NoRow /\ subs[p] # NoRow
      BY <1>2, <1>3, <1>5, NoRowAssumption
    <2>3. QED
      BY <1>4, <1>5, <1>6, <2>1, <2>2 DEF UsedToday
  <1>8. /\ \A t \in Scan \ {s} : scan'[t] = scan[t]
        /\ scan'[s] # Free /\ scan'[s].pk = p
    BY <1>1, <1>2, ScanMoves DEF SerialNext, RefundResume, TypeOK, Charged, Free
  <1>9. bill'[s] = [bill[s] EXCEPT !.back = Today] /\ bill[s] \in [on: 0..Today, back: 0..Today]
    <2>1. bill' = [t \in Scan |-> Billed(t)] /\ BillsOK
      BY Apart
    <2>2. Billed(s) = [bill[s] EXCEPT !.back = Today]
      <3>1. subs'[scan[s].pk] # NoRow
        BY <1>2, <1>3, <1>5, NoRowAssumption
      <3>2. QED
        BY <1>1, <3>1 DEF Billed
    <2>3. QED
      BY <2>1, <2>2 DEF BillsOK
  <1>10. bill'[s].on = bill[s].on /\ bill'[s].back = Today
    BY <1>9
  <1>11. \A t \in Scan \ {s} : scan[t] # Free => bill'[t] = bill[t]
    <2> SUFFICES ASSUME NEW t \in Scan \ {s}, scan[t] # Free PROVE bill'[t] = bill[t]
      OBVIOUS
    <2>1. subs'[scan[t].pk] = NoRow => subs[scan[t].pk] = NoRow
      <3>1. scan[t].pk \in Subscriber
        BY DEF TypeOK, Charged
      <3>2. QED
        BY <1>2, <3>1, NoRowAssumption DEF TypeOK
    <2>2. scan'[t] = scan[t]
      BY <1>8
    <2>3. QED
      BY <2>1, <2>2, KeptBill
  <1>12. CASE bill[s].on = Today
    <2>1. s \in Live(p) /\ Live(p)' = Live(p) \ {s} /\ Stray(p)' = Stray(p)
      BY <1>1, <1>3, <1>4, <1>8, <1>10, <1>11, <1>12 DEF Live, Stray, ScansOf
    <2>2. Cardinality(Live(p)') = Cardinality(Live(p)) - 1
      BY <2>1, Counts, FS_RemoveElement
    <2>3. QED
      BY <1>4, <1>7, <2>1, <2>2, Counts DEF Tally
  <1>13. CASE bill[s].on # Today
    <2>1. s \notin Stray(p) /\ Live(p)' = Live(p) /\ Stray(p)' = Stray(p) \cup {s}
      BY <1>1, <1>3, <1>4, <1>8, <1>10, <1>11, <1>13 DEF Live, Stray, ScansOf
    <2>2. Cardinality(Stray(p)') = Cardinality(Stray(p)) + 1
      BY <2>1, Counts, FS_AddElement
    <2>3. QED
      BY <1>4, <1>7, <2>1, <2>2, Counts DEF Tally
  <1>14. QED
    BY <1>12, <1>13

(* Handlers that put a row with the count it had. *)
LEMMA SameCount ==
    ASSUME TypeOK, SerialInv, SerialNext, ~ tangled', NEW p \in Subscriber, NEW q \in Subscriber,
           Tally(p), NEW row \in Row, subs' = [subs EXCEPT ![q] = row],
           scan' = scan, now' = now, UsedToday(row) = UsedToday(subs[q])
    PROVE  Tally(p)'
  <1>1. Today' = Today
    BY DEF Today
  <1>2. subs'[p] = IF p = q THEN row ELSE subs[p]
    BY DEF TypeOK
  <1>3. UsedToday(subs[p])' = UsedToday(subs[p])
    BY <1>1, <1>2 DEF UsedToday
  <1>4. ASSUME NEW s \in Scan, scan[s] # Free PROVE bill'[s] = bill[s]
    <2>1. scan[s].pk \in Subscriber
      BY <1>4 DEF TypeOK, Charged
    <2>2. subs'[scan[s].pk] = NoRow => subs[scan[s].pk] = NoRow
      BY <2>1, NoRowAssumption DEF TypeOK
    <2>3. ~ (scan[s].st = "refunding" /\ scan'[s].st = "refunded")
      OBVIOUS
    <2>4. QED
      BY <1>4, <2>2, <2>3, KeptBill
  <1>5. QED
    BY <1>3, <1>4, SameTally

LEMMA TickTally ==
    ASSUME TypeOK, RowsInRange, SerialInv, SerialNext, ~ tangled', NEW p \in Subscriber,
           Tally(p), Tick
    PROVE  Tally(p)'
  <1>1. UNCHANGED <<subs, call, scan>>
    BY DEF Tick
  <1>2. /\ Today \in Nat \ {0} /\ Today' \in Nat \ {0} /\ Today <= Today'
        /\ BillsOK /\ UsedToday(subs[p]) \in Nat
    BY TodayAdvances, UsedTodayType, Apart DEF SerialNext
  <1>3. \A s \in Scan : scan[s] # Free => bill'[s] = bill[s]
    <2> SUFFICES ASSUME NEW s \in Scan, scan[s] # Free PROVE bill'[s] = bill[s]
      OBVIOUS
    <2>1. ~ (scan[s].st = "refunding" /\ scan'[s].st = "refunded")
      BY <1>1
    <2>2. QED
      BY <1>1, <2>1, KeptBill
  <1>4. CASE Today' = Today
    <2>1. Live(p)' = Live(p) /\ Stray(p)' = Stray(p) /\ UsedToday(subs[p])' = UsedToday(subs[p])
      BY <1>1, <1>3, <1>4 DEF Live, Stray, ScansOf, UsedToday
    <2>2. QED
      BY <2>1 DEF Tally
  <1>5. CASE Today' # Today
    <2>1. Today < Today'
      BY <1>2, <1>5
    <2>2. Live(p)' = {} /\ Stray(p)' = {}
      <3>1. \A s \in Scan : bill[s].on \in 0..Today /\ bill[s].back \in 0..Today
        BY <1>2 DEF BillsOK
      <3>2. \A s \in Scan : bill[s].on # Today' /\ bill[s].back # Today'
        BY <1>2, <2>1, <3>1
      <3>3. QED
        BY <1>1, <1>3, <3>2 DEF Live, Stray, ScansOf
    <2>3. UsedToday(subs[p])' = 0
      <3>1. subs[p] # NoRow => subs[p].usedDate \in Nat /\ subs[p].usedDate <= Today
        BY DEF RowsInRange, InRange, TypeOK, Row
      <3>2. QED
        BY <1>1, <1>2, <2>1, <3>1 DEF UsedToday
    <2>4. QED
      BY <2>2, <2>3, FS_EmptySet DEF Tally
  <1>6. QED
    BY <1>4, <1>5

LEMMA RemoveTally ==
    ASSUME TypeOK, SerialInv, SerialNext, ~ tangled', NEW p \in Subscriber, NEW q \in Subscriber,
           Tally(p), Remove(q)
    PROVE  Tally(p)'
  <1>1. /\ UNCHANGED <<call, scan, now>> /\ subs' = [subs EXCEPT ![q] = NoRow]
        /\ Today' = Today /\ Today \in Nat \ {0}
    BY TodayAdvances DEF Remove, Today, SerialNext
  <1>2. ASSUME NEW s \in Scan PROVE ~ (scan[s].st = "refunding" /\ scan'[s].st = "refunded")
    BY <1>1
  <1>3. CASE p = q
    <2>1. subs'[p] = NoRow
      BY <1>1, <1>3 DEF TypeOK
    <2>2. \A s \in Scan : scan[s] # Free /\ scan[s].pk = p => bill'[s] = Unbilled
      BY <1>1, <1>2, <2>1, Apart DEF Billed
    <2>3. Live(p)' = {} /\ Stray(p)' = {}
      BY <1>1, <2>2 DEF Live, Stray, ScansOf, Unbilled
    <2>4. UsedToday(subs[p])' = 0
      BY <2>1 DEF UsedToday
    <2>5. QED
      BY <2>3, <2>4, FS_EmptySet DEF Tally
  <1>4. CASE p # q
    <2>1. subs'[p] = subs[p]
      BY <1>1, <1>4 DEF TypeOK
    <2>2. UsedToday(subs[p])' = UsedToday(subs[p])
      BY <1>1, <2>1 DEF UsedToday
    <2>3. \A s \in Scan : scan[s] # Free /\ scan[s].pk = p => bill'[s] = bill[s]
      BY <1>2, <2>1, KeptBill
    <2>4. QED
      BY <1>1, <2>2, <2>3, SameTally
  <1>5. QED
    BY <1>3, <1>4

LEMMA StepTally ==
    ASSUME TypeOK, RowsInRange, SerialInv, SerialNext, ~ tangled',
           NEW p \in Subscriber, Tally(p)
    PROVE  Tally(p)'
  <1>0. now \in Nat \ {0} /\ RowsAreStored /\ BillsSettle /\ BillsOK
    BY Apart DEF TypeOK
  <1>1. ASSUME subs' = subs, now' = now, \A s \in Scan : scan'[s] = Free <=> scan[s] = Free
        PROVE  Tally(p)'
    <2>1. \A s \in Scan : scan[s] # Free => bill'[s] = bill[s]
      BY <1>1, KeptBill
    <2>2. \A s \in Scan : scan[s] # Free => scan'[s].pk = scan[s].pk
      BY ScanMoves DEF SerialNext
    <2>3. UsedToday(subs[p])' = UsedToday(subs[p])
      BY <1>1 DEF UsedToday, Today
    <2>4. QED
      BY <1>1, <2>1, <2>2, <2>3, SameTally
  <1>2. ASSUME subs' = subs, scan' = scan, now' = now PROVE Tally(p)'
    BY <1>1, <1>2
  <1>3. ASSUME NEW c \in Call, NEW q \in Subscriber, NEW op, Read(c, op, q) PROVE Tally(p)'
    BY <1>2, <1>3 DEF Read
  <1>4. ASSUME NEW c \in Call, AuthorizeReject(c) \/ SetReject(c) PROVE Tally(p)'
    BY <1>2, <1>4 DEF AuthorizeReject, SetReject
  <1>5. ASSUME NEW c \in Call, CheckResume(c) PROVE Tally(p)'
    <2>1. call[c] # Idle /\ call[c].pk \in Subscriber /\ call[c].row = subs[call[c].pk]
      BY <1>0, <1>5, Entries DEF CheckResume, InFlightCall, Idle, RowsAreStored
    <2>2. SeenRow(call[c].row) \in Row
      BY <1>0, <2>1, WrittenRows DEF TypeOK
    <2>3. UsedToday(SeenRow(call[c].row)) = UsedToday(subs[call[c].pk])
      <3>1. Today # 0
        BY <1>0, ClockAssumption DEF Today
      <3>2. QED
        BY <2>1, <3>1 DEF SeenRow, NewVisitor, UsedToday
    <2>4. QED
      BY <1>5, <2>1, <2>2, <2>3, SameCount DEF CheckResume
  <1>6. ASSUME NEW c \in Call, NEW s \in Scan, AuthorizeCharge(c, s) PROVE Tally(p)'
    <2>1. CASE call[c].pk = p
      BY <1>6, <2>1, ChargeTally
    <2>2. CASE call[c].pk # p
      <3>1. UNCHANGED <<now, granted>> /\ subs'[p] = subs[p]
        BY <1>6, <2>2 DEF AuthorizeCharge, TypeOK
      <3>2. UsedToday(subs[p])' = UsedToday(subs[p])
        BY <3>1 DEF UsedToday, Today
      <3>3. scan'[s].pk # p /\ \A t \in Scan \ {s} : scan'[t] = scan[t]
        BY <1>6, <2>2 DEF AuthorizeCharge, TypeOK
      <3>4. \A t \in Scan : scan[t] # Free /\ scan[t].pk = p =>
               /\ scan'[t] = scan[t]
               /\ ~ (scan[t].st = "refunding" /\ scan'[t].st = "refunded")
        BY <1>6, <3>3 DEF AuthorizeCharge
      <3>5. \A t \in Scan : scan[t] # Free /\ scan[t].pk = p => bill'[t] = bill[t]
        BY <3>1, <3>4, KeptBill
      <3>6. scan[s] = Free
        BY <1>6 DEF AuthorizeCharge
      <3>7. QED
        BY <3>1, <3>2, <3>3, <3>5, <3>6, SameTally
    <2>3. QED
      BY <2>1, <2>2
  <1>7. ASSUME NEW c \in Call, NEW until \in Dates, NEW limit \in {0} \cup Limits,
               SetResume(c, until, limit)
        PROVE  Tally(p)'
    <2>1. call[c] # Idle /\ call[c].pk \in Subscriber /\ call[c].row = subs[call[c].pk]
      BY <1>0, <1>7, Entries DEF SetResume, InFlightCall, Idle, RowsAreStored
    <2>2. SeenRow(call[c].row) \in Row /\ GrantedRow(call[c].row, until, limit) \in Row
      BY <1>0, <2>1, WrittenRows DEF TypeOK
    <2>3. UsedToday(GrantedRow(call[c].row, until, limit)) = UsedToday(SeenRow(call[c].row))
      <3>1. /\ GrantedRow(call[c].row, until, limit).used = SeenRow(call[c].row).used
            /\ GrantedRow(call[c].row, until, limit).usedDate = SeenRow(call[c].row).usedDate
        BY <2>2 DEF GrantedRow, Row
      <3>2. QED
        BY <2>2, <3>1, NoRowAssumption DEF UsedToday
    <2>4. UsedToday(SeenRow(call[c].row)) = UsedToday(subs[call[c].pk])
      <3>1. Today # 0
        BY <1>0, ClockAssumption DEF Today
      <3>2. QED
        BY <2>1, <3>1 DEF SeenRow, NewVisitor, UsedToday
    <2>5. QED
      BY <1>7, <2>1, <2>2, <2>3, <2>4, SameCount DEF SetResume
  <1>8. ASSUME NEW q \in Subscriber, Remove(q) PROVE Tally(p)'
    BY <1>8, RemoveTally
  <1>9. ASSUME NEW s \in Scan, Serve(s) \/ Lose(s) \/ RefundRead(s) PROVE Tally(p)'
    <2>1. scan[s].st # "free" /\ scan'[s] # Free /\ \A t \in Scan \ {s} : scan'[t] = scan[t]
      BY <1>9, Entries DEF Serve, Lose, RefundRead, Charged, TypeOK, Free
    <2>2. scan[s] # Free
      BY <2>1 DEF Free
    <2>3. QED
      BY <1>1, <1>9, <2>1, <2>2 DEF Serve, Lose, RefundRead
  <1>10. ASSUME NEW s \in Scan, RefundResume(s) PROVE Tally(p)'
    <2>1. /\ scan[s].st = "refunding" /\ scan'[s].st = "refunded" /\ scan[s].pk \in Subscriber
          /\ \A t \in Scan \ {s} : scan'[t] = scan[t]
      BY <1>10, Entries DEF RefundResume, Charged, TypeOK
    <2>2. scan[s] # Free /\ scan'[s] # Free /\ now' = now
      <3>1. scan[s].st # "free" /\ scan'[s].st # "free"
        BY <2>1
      <3>2. now' = now
        BY <1>10 DEF RefundResume
      <3>3. QED
        BY <3>1, <3>2 DEF Free
    <2>3. CASE subs' = subs
      BY <1>1, <2>1, <2>2, <2>3
    <2>4. CASE subs' # subs /\ scan[s].pk = p
      BY <1>10, <2>4, RefundTally
    <2>5. CASE subs' # subs /\ scan[s].pk # p
      <3>1. subs'[p] = subs[p]
        BY <1>10, <2>5 DEF RefundResume, TypeOK
      <3>2. UsedToday(subs[p])' = UsedToday(subs[p])
        BY <2>2, <3>1 DEF UsedToday, Today
      <3>3. \A t \in Scan : scan[t] # Free /\ scan[t].pk = p =>
               t # s /\ ~ (scan[t].st = "refunding" /\ scan'[t].st = "refunded")
        BY <2>1, <2>5
      <3>4. \A t \in Scan : scan[t] # Free /\ scan[t].pk = p => bill'[t] = bill[t]
        BY <3>1, <3>3, KeptBill
      <3>5. scan'[s].pk # p
        BY <2>1, <2>2, <2>5, ScanMoves DEF SerialNext
      <3>6. QED
        BY <2>1, <2>2, <2>5, <3>2, <3>4, <3>5, SameTally
    <2>6. QED
      BY <2>3, <2>4, <2>5
  <1>11. ASSUME Reload PROVE Tally(p)'
    <2>1. ASSUME NEW s \in Scan PROVE scan'[s] = Free <=> scan[s] = Free
      <3>1. CASE scan[s] = Free
        <4>1. scan[s].st \notin {"charged", "refunding"}
          BY <3>1 DEF Free
        <4>2. QED
          BY <1>11, <3>1, <4>1 DEF Reload
      <3>2. CASE scan[s] # Free
        BY <1>11, <3>2, ScanMoves DEF SerialNext
      <3>3. QED
        BY <3>1, <3>2
    <2>2. QED
      BY <1>1, <1>11, <2>1 DEF Reload
  <1>12. CASE Tick
    BY <1>12, TickTally
  <1>13. QED
    BY <1>3, <1>4, <1>5, <1>6, <1>7, <1>8, <1>9, <1>10, <1>11, <1>12
       DEF SerialNext, Next, AuthorizeRead, CheckRead, SetRead

LEMMA StepCount ==
    TypeOK /\ RowsInRange /\ SerialInv /\ CountMatchesScans /\ [SerialNext]_serialVars
        => CountMatchesScans'
  <1> SUFFICES ASSUME TypeOK, RowsInRange, SerialInv, CountMatchesScans, [SerialNext]_serialVars,
                      ~ tangled', NEW p \in Subscriber
               PROVE  Tally(p)'
    BY DEF CountMatchesScans, Tally
  <1>1. CASE SerialNext
    <2>1. Tally(p)
      BY <1>1, Apart DEF CountMatchesScans, Tally
    <2>2. QED
      BY <1>1, <2>1, StepTally
  <1>2. CASE UNCHANGED serialVars
    <2>1. Tally(p)
      BY <1>2 DEF CountMatchesScans, Tally, serialVars
    <2>2. Live(p)' = Live(p) /\ Stray(p)' = Stray(p) /\ UsedToday(subs[p])' = UsedToday(subs[p])
      BY <1>2 DEF serialVars, vars, Live, Stray, ScansOf, Today, UsedToday
    <2>3. QED
      BY <2>1, <2>2 DEF Tally
  <1>3. QED
    BY <1>1, <1>2

LEMMA InitSerial == SerialInit => RowsInRange /\ SerialInv /\ CountMatchesScans
  <1> SUFFICES ASSUME SerialInit PROVE RowsInRange /\ SerialInv /\ CountMatchesScans
    OBVIOUS
  <1>1. RowsInRange
    BY DEF SerialInit, Init, RowsInRange, Idle, Free
  <1>2. /\ \A s \in Scan : scan[s] = Free /\ bill[s] = Unbilled
        /\ \A c \in Call : call[c] = Idle
        /\ now \in Nat \ {0}
    BY DEF SerialInit, Init
  <1>3. Today \in Nat \ {0}
    BY <1>2, ClockAssumption DEF Today
  <1>4. OneInFlight /\ RowsAreStored /\ BillsSettle
    BY <1>2 DEF OneInFlight, InFlight, RowsAreStored, BillsSettle, Free, Unbilled
  <1>5. BillsOK
    BY <1>2, <1>3 DEF BillsOK, Unbilled, SerialInit
  <1>6. ASSUME NEW p \in Subscriber PROVE Tally(p)
    <2>1. Live(p) = {} /\ Stray(p) = {}
      BY <1>2 DEF Live, Stray, ScansOf
    <2>2. UsedToday(subs[p]) = 0
      BY DEF SerialInit, Init, UsedToday
    <2>3. QED
      BY <2>1, <2>2, FS_EmptySet DEF Tally
  <1>7. QED
    BY <1>1, <1>4, <1>5, <1>6 DEF SerialInv, CountMatchesScans, Tally

LEMMA SerialCorrect ==
    SerialSpec => [](TypeOK /\ RowsInRange /\ SerialInv /\ CountMatchesScans)
  <1>1. SerialInit => TypeOK
    BY InitTypeOK DEF SerialInit
  <1>2. [SerialNext]_serialVars => [Next]_vars
    BY DEF SerialNext, serialVars
  <1>3. QED
    BY <1>1, <1>2, InitSerial, StepTypeOK, StepRange, StepSerial, StepCount, PTL DEF SerialSpec

(* As long as handlers do not overlap, the count in a row is the number of *)
(* the day's scans that were not refunded, but for the stray refunds.      *)
THEOREM CountTheorem == SerialSpec => []CountMatchesScans
  BY SerialCorrect, PTL
-----------------------------------------------------------------------------

(* The refinement mapping, and what it makes of a written row.             *)
Given(p) == IF subs[p] = NoRow THEN NoRow
            ELSE [until |-> subs[p].until, limit |-> subs[p].limit]
Grants == [p \in Subscriber |-> Given(p)]
Counted == [p \in Subscriber |-> UsedToday(subs[p])]

LEMMA SameView ==
    ASSUME subs' = subs, now' = now
    PROVE  UNCHANGED Quota!vars
  BY DEF Quota!vars, UsedToday, Today

LEMMA WrittenView ==
    ASSUME TypeOK, NEW p \in Subscriber, NEW row \in Row, subs' = [subs EXCEPT ![p] = row], now' = now
    PROVE  /\ Grants' = [Grants EXCEPT ![p] = [until |-> row.until, limit |-> row.limit]]
           /\ Counted' = [Counted EXCEPT ![p] = UsedToday(row)]
  <1>1. \A q \in Subscriber : subs'[q] = IF q = p THEN row ELSE subs[q]
    BY DEF TypeOK
  <1>2. row # NoRow /\ Today' = Today
    BY NoRowAssumption DEF Today
  <1>3. \A q \in Subscriber :
           /\ Given(q)' = IF q = p THEN [until |-> row.until, limit |-> row.limit] ELSE Given(q)
           /\ UsedToday(subs[q])' = IF q = p THEN UsedToday(row) ELSE UsedToday(subs[q])
    BY <1>1, <1>2 DEF Given, UsedToday
  <1>4. Grants' = [q \in Subscriber |-> Given(q)'] /\ Counted' = [q \in Subscriber |-> UsedToday(subs[q])']
    BY DEF Grants, Counted
  <1>5. QED
    BY <1>3, <1>4 DEF Grants, Counted

LEMMA Mapped ==
    /\ Quota!vars = <<Grants, Counted, now>>
    /\ \A p \in Subscriber :
          /\ Quota!Meet(p) <=> /\ Grants[p] = NoRow
                               /\ Grants' = [Grants EXCEPT ![p] = [until |-> 0, limit |-> 0]]
                               /\ Counted' = Counted /\ now' = now
          /\ Quota!Charge(p) <=> /\ Grants[p] # NoRow /\ Grants[p].until >= now
                                 /\ Counted[p] < IF Grants[p].limit = 0 THEN DefaultLimit ELSE Grants[p].limit
                                 /\ Counted' = [Counted EXCEPT ![p] = @ + 1]
                                 /\ Grants' = Grants /\ now' = now
          /\ Quota!Refund(p) <=> /\ Counted[p] > 0
                                 /\ Counted' = [Counted EXCEPT ![p] = @ - 1]
                                 /\ Grants' = Grants /\ now' = now
          /\ Quota!Grant(p) <=> /\ \E until \in Dates, limit \in {0} \cup Limits :
                                      Grants' = [Grants EXCEPT ![p] = [until |-> until, limit |-> limit]]
                                /\ Counted' = Counted /\ now' = now
          /\ Quota!Revoke(p) <=> /\ Grants' = [Grants EXCEPT ![p] = NoRow]
                                 /\ Counted' = [Counted EXCEPT ![p] = 0] /\ now' = now
    /\ Quota!Pass <=> /\ now' = now + 1 /\ Grants' = Grants
                      /\ Counted' = IF now' \div DayLength = now \div DayLength THEN Counted
                                    ELSE [p \in Subscriber |-> 0]
  BY DEF Quota!vars, Quota!Meet, Quota!Charge, Quota!Refund, Quota!Entitled, Quota!Quota,
         Quota!Grant, Quota!Revoke, Quota!Pass, Quota!Day, Grants, Given, Counted

LEMMA StepQuota ==
    ASSUME TypeOK, RowsInRange, SerialInv, [SerialNext]_serialVars, ~ tangled'
    PROVE  [Quota!Next]_(Quota!vars)
  <1>0. now \in Nat \ {0}
    BY DEF TypeOK
  <1>1. CASE subs' = subs /\ now' = now
    BY <1>1, SameView
  <1>2. ASSUME NEW c \in Call, CheckResume(c), SerialNext PROVE [Quota!Next]_(Quota!vars)
    <2>1. PICK p \in Subscriber : p = call[c].pk /\ call[c].row = subs[p]
      BY <1>2, Entries, Apart DEF CheckResume, InFlightCall, Idle, RowsAreStored
    <2>2. subs' = [subs EXCEPT ![p] = SeenRow(subs[p])] /\ now' = now
      BY <1>2, <2>1 DEF CheckResume
    <2>3. CASE subs[p] = NoRow
      <3>1. SeenRow(subs[p]) = NewVisitor /\ NewVisitor \in Row
        BY <2>3 DEF SeenRow, NewVisitor, Row
      <3>2. /\ Grants' = [Grants EXCEPT ![p] = [until |-> NewVisitor.until, limit |-> NewVisitor.limit]]
            /\ Counted' = [Counted EXCEPT ![p] = UsedToday(NewVisitor)]
        BY <2>1, <2>2, <3>1, WrittenView
      <3>3. UsedToday(NewVisitor) = 0 /\ NewVisitor.until = 0 /\ NewVisitor.limit = 0
        <4>1. Today # 0
          BY <1>0, ClockAssumption DEF Today
        <4>2. QED
          BY <4>1 DEF UsedToday, NewVisitor
      <3>4. Grants[p] = NoRow /\ Counted[p] = 0
        BY <2>1, <2>3 DEF Grants, Given, Counted, UsedToday
      <3>5. Counted' = Counted
        BY <3>2, <3>3, <3>4 DEF Counted
      <3>6. Quota!Meet(p)
        BY <2>1, <2>2, <3>2, <3>3, <3>4, <3>5, Mapped
      <3>7. QED
        BY <2>1, <3>6 DEF Quota!Next
    <2>4. CASE subs[p] # NoRow
      <3>1. subs' = subs
        BY <2>2, <2>4 DEF SeenRow, TypeOK
      <3>2. QED
        BY <1>1, <2>2, <3>1
    <2>5. QED
      BY <2>3, <2>4
  <1>3. ASSUME NEW c \in Call, NEW s \in Scan, AuthorizeCharge(c, s), SerialNext
        PROVE  [Quota!Next]_(Quota!vars)
    <2>1. PICK p \in Subscriber : /\ p = call[c].pk /\ call[c].row = subs[p]
                                  /\ subs[p] \in Row /\ Admissible(subs[p])
      BY <1>3, Entries, Apart DEF AuthorizeCharge, Admissible, InFlightCall, Idle, RowsAreStored
    <2>2. subs' = [subs EXCEPT ![p] = ChargedRow(subs[p])] /\ now' = now
      BY <1>3, <2>1 DEF AuthorizeCharge
    <2>3. ChargedRow(subs[p]) \in Row
      BY <1>0, <2>1, WrittenRows
    <2>4. /\ ChargedRow(subs[p]).until = subs[p].until /\ ChargedRow(subs[p]).limit = subs[p].limit
          /\ ChargedRow(subs[p]).used = UsedToday(subs[p]) + 1 /\ ChargedRow(subs[p]).usedDate = Today
      BY <2>1 DEF ChargedRow, Row
    <2>5. UsedToday(ChargedRow(subs[p])) = UsedToday(subs[p]) + 1
      BY <2>3, <2>4, NoRowAssumption DEF UsedToday
    <2>6. /\ Grants' = [Grants EXCEPT ![p] = [until |-> subs[p].until, limit |-> subs[p].limit]]
          /\ Counted' = [Counted EXCEPT ![p] = UsedToday(subs[p]) + 1]
      <3> DEFINE new == ChargedRow(subs[p])
      <3>1. new \in Row /\ subs' = [subs EXCEPT ![p] = new] /\ now' = now
        BY <2>2, <2>3
      <3> HIDE DEF new
      <3>2. /\ Grants' = [Grants EXCEPT ![p] = [until |-> new.until, limit |-> new.limit]]
            /\ Counted' = [Counted EXCEPT ![p] = UsedToday(new)]
        BY <3>1, WrittenView
      <3>3. QED
        BY <2>4, <2>5, <3>2 DEF new
    <2>7. /\ Grants[p] = [until |-> subs[p].until, limit |-> subs[p].limit]
          /\ Counted[p] = UsedToday(subs[p])
      BY <2>1, NoRowAssumption DEF Grants, Given, Counted
    <2>8. Grants' = Grants
      BY <2>6, <2>7 DEF Grants
    <2>9. Grants[p] # NoRow
      <3>1. subs[p].until \in {0} \cup Dates /\ subs[p].limit \in {0} \cup Limits
        BY <2>1 DEF Row
      <3>2. subs[p].until \in Nat /\ subs[p].limit \in Nat
        <4>1. (\A d \in Dates : d \in Nat) /\ (\A l \in Limits : l \in Nat)
          BY DatesAssumption, LimitsAssumption
        <4>2. QED
          BY <3>1, <4>1
      <3>3. QED
        BY <2>7, <3>2, NoGrantAssumption
    <2>10. Grants[p].until >= now /\ Counted[p] < IF Grants[p].limit = 0 THEN DefaultLimit ELSE Grants[p].limit
      BY <2>1, <2>7 DEF Admissible, DailyLimit
    <2>11. Counted' = [Counted EXCEPT ![p] = @ + 1]
      BY <2>6, <2>7
    <2>12. Quota!Charge(p)
      BY <2>1, <2>2, <2>8, <2>9, <2>10, <2>11, Mapped
    <2>13. QED
      BY <2>1, <2>12 DEF Quota!Next
  <1>4. ASSUME NEW c \in Call, NEW until \in Dates, NEW limit \in {0} \cup Limits,
               SetResume(c, until, limit), SerialNext
        PROVE  [Quota!Next]_(Quota!vars)
    <2>1. PICK p \in Subscriber : p = call[c].pk /\ call[c].row = subs[p]
      BY <1>4, Entries, Apart DEF SetResume, InFlightCall, Idle, RowsAreStored
    <2> DEFINE new == GrantedRow(subs[p], until, limit)
    <2>2. subs' = [subs EXCEPT ![p] = new] /\ now' = now
      BY <1>4, <2>1 DEF SetResume
    <2>3. SeenRow(subs[p]) \in Row /\ new \in Row
      BY <1>0, <2>1, WrittenRows DEF TypeOK
    <2>4. /\ new.until = until /\ new.limit = limit
          /\ new.used = SeenRow(subs[p]).used /\ new.usedDate = SeenRow(subs[p]).usedDate
      BY <2>3 DEF GrantedRow, Row
    <2>5. UsedToday(new) = UsedToday(subs[p])
      <3>1. Today # 0
        BY <1>0, ClockAssumption DEF Today
      <3>2. UsedToday(SeenRow(subs[p])) = UsedToday(subs[p])
        BY <3>1 DEF SeenRow, NewVisitor, UsedToday
      <3>3. QED
        BY <2>3, <2>4, <3>2, NoRowAssumption DEF UsedToday
    <2> HIDE DEF new
    <2>6. /\ Grants' = [Grants EXCEPT ![p] = [until |-> until, limit |-> limit]]
          /\ Counted' = [Counted EXCEPT ![p] = UsedToday(subs[p])]
      <3>1. /\ Grants' = [Grants EXCEPT ![p] = [until |-> new.until, limit |-> new.limit]]
            /\ Counted' = [Counted EXCEPT ![p] = UsedToday(new)]
        BY <2>2, <2>3, WrittenView
      <3>2. QED
        BY <2>4, <2>5, <3>1
    <2>7. Counted' = Counted
      BY <2>1, <2>6 DEF Counted
    <2>8. Quota!Grant(p)
      BY <2>1, <2>2, <2>6, <2>7, Mapped
    <2>9. QED
      BY <2>1, <2>8 DEF Quota!Next
  <1>5. ASSUME NEW p \in Subscriber, Remove(p) PROVE [Quota!Next]_(Quota!vars)
    <2>1. now' = now /\ \A q \in Subscriber : subs'[q] = IF q = p THEN NoRow ELSE subs[q]
      BY <1>5 DEF Remove, TypeOK
    <2>2. \A q \in Subscriber :
             /\ Given(q)' = IF q = p THEN NoRow ELSE Given(q)
             /\ UsedToday(subs[q])' = IF q = p THEN 0 ELSE UsedToday(subs[q])
      BY <2>1 DEF Given, UsedToday, Today
    <2>3. Grants' = [q \in Subscriber |-> Given(q)'] /\ Counted' = [q \in Subscriber |-> UsedToday(subs[q])']
      BY DEF Grants, Counted
    <2>4. Grants' = [Grants EXCEPT ![p] = NoRow] /\ Counted' = [Counted EXCEPT ![p] = 0]
      BY <2>2, <2>3 DEF Grants, Counted
    <2>5. Quota!Revoke(p)
      BY <2>1, <2>4, Mapped
    <2>6. QED
      BY <2>5 DEF Quota!Next
  <1>6. ASSUME NEW s \in Scan, RefundResume(s), subs' # subs, SerialNext
        PROVE  [Quota!Next]_(Quota!vars)
    <2>1. scan[s].st = "refunding" /\ scan[s] \in Charged /\ now' = now
      BY <1>6, Entries DEF RefundResume
    <2>2. PICK p \in Subscriber : p = scan[s].pk /\ scan[s].row = subs[p]
      BY <1>6, <2>1, Apart DEF Charged, RowsAreStored
    <2>3. Refundable(subs[p]) /\ subs[p] \in Row /\ subs' = [subs EXCEPT ![p] = RefundedRow(subs[p])]
      BY <1>6, <2>1, <2>2 DEF RefundResume, Refundable, TypeOK
    <2>4. RefundedRow(subs[p]) \in Row /\ RefundedRow(subs[p]) # subs[p]
      BY <1>0, <1>6, <2>2, <2>3, WrittenRows DEF TypeOK
    <2>5. subs[p].used > 0
      <3> SUFFICES ASSUME ~ subs[p].used > 0 PROVE FALSE
        OBVIOUS
      <3>1. subs[p].used = 0
        BY <2>3 DEF Row
      <3>2. QED
        BY <2>3, <2>4, <3>1 DEF RefundedRow, Row
    <2>6. /\ RefundedRow(subs[p]).until = subs[p].until /\ RefundedRow(subs[p]).limit = subs[p].limit
          /\ RefundedRow(subs[p]).used = subs[p].used - 1
          /\ RefundedRow(subs[p]).usedDate = subs[p].usedDate
      BY <2>3, <2>5 DEF RefundedRow, Row
    <2>7. /\ UsedToday(subs[p]) = subs[p].used
          /\ UsedToday(RefundedRow(subs[p])) = subs[p].used - 1
      BY <2>3, <2>4, <2>6, NoRowAssumption DEF UsedToday, Refundable
    <2>8. /\ Grants' = [Grants EXCEPT ![p] = [until |-> subs[p].until, limit |-> subs[p].limit]]
          /\ Counted' = [Counted EXCEPT ![p] = subs[p].used - 1]
      <3> DEFINE new == RefundedRow(subs[p])
      <3>1. new \in Row /\ subs' = [subs EXCEPT ![p] = new] /\ now' = now
        BY <2>1, <2>3, <2>4
      <3> HIDE DEF new
      <3>2. /\ Grants' = [Grants EXCEPT ![p] = [until |-> new.until, limit |-> new.limit]]
            /\ Counted' = [Counted EXCEPT ![p] = UsedToday(new)]
        BY <3>1, WrittenView
      <3>3. QED
        BY <2>6, <2>7, <3>2 DEF new
    <2>9. /\ Grants[p] = [until |-> subs[p].until, limit |-> subs[p].limit]
          /\ Counted[p] = subs[p].used
      BY <2>2, <2>3, <2>7, NoRowAssumption DEF Grants, Given, Counted
    <2>10. Grants' = Grants
      BY <2>8, <2>9 DEF Grants
    <2>11. Counted[p] > 0 /\ Counted' = [Counted EXCEPT ![p] = @ - 1]
      BY <2>5, <2>8, <2>9
    <2>12. Quota!Refund(p)
      BY <2>1, <2>2, <2>10, <2>11, Mapped
    <2>13. QED
      BY <2>2, <2>12 DEF Quota!Next
  <1>7. CASE Tick /\ SerialNext
    <2>1. now' = now + 1 /\ subs' = subs
      BY <1>7 DEF Tick
    <2>2. Today \in Nat \ {0} /\ Today' \in Nat \ {0} /\ Today <= Today'
      BY <1>7, TodayAdvances DEF SerialNext
    <2>3. Today' = Today <=> now' \div DayLength = now \div DayLength
      BY <1>0, <2>1, ClockAssumption DEF Today
    <2>4. Grants' = Grants
      BY <2>1 DEF Grants, Given
    <2>5. \A p \in Subscriber :
             UsedToday(subs[p])' = IF Today' = Today THEN UsedToday(subs[p]) ELSE 0
      <3> SUFFICES ASSUME NEW p \in Subscriber
                   PROVE  UsedToday(subs[p])' = IF Today' = Today THEN UsedToday(subs[p]) ELSE 0
        OBVIOUS
      <3>1. subs[p] # NoRow => subs[p].usedDate \in Nat /\ subs[p].usedDate <= Today
        BY DEF RowsInRange, InRange, TypeOK, Row
      <3>2. QED
        BY <2>1, <2>2, <3>1 DEF UsedToday
    <2>6. Counted' = [p \in Subscriber |-> UsedToday(subs[p])']
      BY DEF Counted
    <2>7. Counted' = IF now' \div DayLength = now \div DayLength THEN Counted
                     ELSE [p \in Subscriber |-> 0]
      BY <2>3, <2>5, <2>6 DEF Counted
    <2>8. Quota!Pass
      BY <2>1, <2>4, <2>7, Mapped
    <2>9. QED
      BY <2>8 DEF Quota!Next
  <1>8. CASE SerialNext
    BY <1>1, <1>2, <1>3, <1>4, <1>5, <1>6, <1>7, <1>8
       DEF SerialNext, Next, AuthorizeRead, CheckRead, SetRead, Read, AuthorizeReject, SetReject,
           Serve, Lose, RefundRead, RefundResume, Reload
  <1>9. CASE UNCHANGED serialVars
    BY <1>1, <1>9 DEF serialVars, vars
  <1>10. QED
    BY <1>8, <1>9

(* Read and written in two steps, the rows behave as the atomic quota for  *)
(* as long as handlers do not overlap: a charge is made within the grant   *)
(* and the limit of that moment, and midnight alone clears a count.        *)
THEOREM QuotaTheorem == SerialSpec => ImplementsDailyQuota
  <1>1. SerialInit => Quota!Init
    BY DEF SerialInit, Init, Quota!Init, UsedToday
  <1>2. TypeOK /\ RowsInRange /\ SerialInv /\ [SerialNext]_serialVars
            => [tangled' \/ [Quota!Next]_(Quota!vars)]_serialVars
    BY StepQuota
  <1>3. QED
    BY <1>1, <1>2, SerialCorrect, PTL DEF SerialSpec, ImplementsDailyQuota
=============================================================================
