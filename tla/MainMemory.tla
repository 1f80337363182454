------------------------------ MODULE MainMemory ------------------------------
(***************************************************************************)
(* The models of main memory of cachesim/dram.py: a constant latency, or   *)
(* open-page DRAM with one activated row per bank.  A memory is a record;  *)
(* read and write are operators that return the memory they leave behind   *)
(* and the cycles they took.                                               *)
(*                                                                         *)
(* The parameters p of a memory are [type |-> "constant", latency] or      *)
(* [type |-> "row-buffer", rowSize, banks, rowHit, rowMiss].               *)
(***************************************************************************)
EXTENDS Integers

CLOSED == -1

MemoryCounters == {"reads", "writes", "rowHits", "rowMisses", "chargedAccesses", "chargedCycles"}

NoMemoryCounts == [name \in MemoryCounters |-> 0]

\* The parameters the constructors accept.
MemoryValid(p) ==
  IF p.type = "constant" THEN p.latency >= 0
  ELSE p.rowSize >= 1 /\ p.banks >= 1 /\ p.rowHit >= 0 /\ p.rowMiss >= p.rowHit

Banks(p) == IF p.type = "constant" THEN {} ELSE 0 .. p.banks - 1

Memory(p) == [p |-> p, open |-> [bank \in Banks(p) |-> CLOSED], n |-> NoMemoryCounts]

ConstantLatency(m) == m.p.type = "constant"

Row(p, address) == address \div p.rowSize
Bank(p, row) == row % p.banks

\* Mutant of Opened: a row once activated stays open.
StaysOpen(m, address) ==
  IF ConstantLatency(m) THEN m.open
  ELSE LET row == Row(m.p, address)
       IN [m.open EXCEPT ![Bank(m.p, row)] = IF @ = CLOSED THEN row ELSE @]

\* The open rows after an access to `address'.
Opened(m, address) ==
  IF ConstantLatency(m) THEN m.open
  ELSE LET row == Row(m.p, address) IN [m.open EXCEPT ![Bank(m.p, row)] = row]

RowOpen(m, address) ==
  LET row == Row(m.p, address) IN m.open[Bank(m.p, row)] = row

\* _service, and the two methods of the constant-latency model.
Serve(m, address, charged, operation) ==
  LET cycles == IF ConstantLatency(m) THEN m.p.latency
                ELSE IF RowOpen(m, address) THEN m.p.rowHit ELSE m.p.rowMiss
      names == {operation}
               \cup (IF ConstantLatency(m) THEN {}
                     ELSE {IF RowOpen(m, address) THEN "rowHits" ELSE "rowMisses"})
               \cup (IF charged THEN {"chargedAccesses"} ELSE {})
      counted == [x \in MemoryCounters |-> IF x \in names THEN m.n[x] + 1 ELSE m.n[x]]
  IN [memory |-> [m EXCEPT !.open = Opened(m, address),
                           !.n = [counted EXCEPT !["chargedCycles"] = IF charged THEN @ + cycles ELSE @]],
      cycles |-> cycles]

Read(m, address, charged) == Serve(m, address, charged, "reads")
Write(m, address, charged) == Serve(m, address, charged, "writes")

\* average_latency, a fraction <<numerator, denominator>>.
AverageLatency(m) ==
  IF ConstantLatency(m) THEN <<m.p.latency, 1>>
  ELSE IF m.n["chargedAccesses"] = 0 THEN <<m.p.rowMiss, 1>>
  ELSE <<m.n["chargedCycles"], m.n["chargedAccesses"]>>

\* reset_stats: the open rows stay.
ResetMemory(m) == [m EXCEPT !.n = NoMemoryCounts]
===============================================================================
