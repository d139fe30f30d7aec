---------------------------- MODULE MCWorkBudget ----------------------------
(***************************************************************************)
(* Two goroutines, one budget, under four sets of limits.  Tight: every    *)
(* counter meets its limit.  Streams: entries of several chunks, and two   *)
(* levels of nesting.  Loose: the reads and the whole request are          *)
(* unlimited, and the integer range stops them.  Writers: the same for the *)
(* text of the Writers.                                                    *)
(***************************************************************************)
EXTENDS WorkBudget

CONSTANTS t1, t2

MCThreads == {t1, t2}

Unlimited == [c \in Counters |-> 0]

Tight ==
  [Unlimited EXCEPT
     !["request_work"] = 3, !["read_bytes"] = 2, !["output_bytes"] = 2,
     !["archive_total_bytes"] = 2, !["archive_entry_bytes"] = 1,
     !["ast_depth"] = 1, !["archive_depth"] = 1]

Streams ==
  [Tight EXCEPT
     !["read_bytes"] = 1, !["output_bytes"] = 1, !["archive_total_bytes"] = 3,
     !["archive_entry_bytes"] = 2, !["ast_depth"] = 2]

Loose ==
  [Unlimited EXCEPT
     !["output_bytes"] = 1, !["archive_total_bytes"] = 1,
     !["archive_entry_bytes"] = 1, !["ast_depth"] = 1, !["archive_depth"] = 1]

Writers == [Loose EXCEPT !["request_work"] = 1, !["output_bytes"] = 0]

MCLimitSets == {Tight, Streams, Loose, Writers}

\* Check, Charge by name, and the reader's ChargeMany of bytes and operations.
MCCosts ==
  { [c \in Billed |-> 0],
    Only("request_work", 1),
    [Only("read_bytes", 2) EXCEPT !["read_ops"] = 1] }

MCSizes == {1, 2}
=============================================================================
