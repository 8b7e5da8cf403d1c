--------------------------- MODULE ReportingMirror ---------------------------
(***************************************************************************)
(* The reporting database, a copy of one pair's candles and market keys    *)
(* that the data container brings up to date pass by pass, in a thread     *)
(* beside its own writes: everything after the watermark of a table is     *)
(* copied, at most a batch at a time, and the bars of a longer timeframe   *)
(* are built from the copied M5 rows.  A row is known by its slot and by   *)
(* how far its candle was, a key by its slot and its parameter set, while  *)
(* the watermark of the keys is a slot alone.  One longer timeframe stands *)
(* for all of them.                                                        *)
(***************************************************************************)
EXTENDS Naturals, FiniteSets

CONSTANTS
    MaxRow,     \* bound: slots
    BarRows,    \* M5 rows of a bar
    Batch,      \* BATCH
    ParamSets,  \* the parameter sets whose keys are kept
    MaxPasses,  \* bound: passes
    MaxLate     \* bound: rows written behind the latest one

ASSUME ReportingMirrorAssumption ==
    /\ MaxRow \in Nat \ {0}
    /\ BarRows \in Nat \ {0, 1}
    /\ Batch \in Nat \ {0}
    /\ MaxPasses \in Nat /\ MaxLate \in Nat

TableRows == 1..MaxRow
Buckets == 1..((MaxRow + BarRows - 1) \div BarRows)
RowForms == {"none", "half", "whole", "null"}
MarketKeys == TableRows \X ParamSets

VARIABLES
    rows,       \* production: the M5 table
    rowKeys,    \* production: the market keys
    disk,       \* the reporting database, as committed
    work,       \* the reporting database, as the pass in progress has written it
    pass,       \* what the pass does next: "none", "m5", "bars" or "keys"
    latecomers, \* history: rows written below the watermark
    lateKeys,   \* history: keys written below the watermark
    seams,      \* history: the slots at which a pass ended with the keys
    broken,     \* history: a pass has failed
    passes, lates

histories == <<latecomers, lateKeys, seams>>
mirrorVars == <<rows, rowKeys, disk, work, pass, histories, broken, passes, lates>>

\* A copy: rows, bars (what each was made of), keys, and the watermark of each table.
Copies == [m5: [TableRows -> RowForms], bars: [Buckets -> SUBSET (TableRows \X RowForms)],
           keys: SUBSET MarketKeys, mark: [{"m5", "bars", "keys"} -> 0..MaxRow]]

MirrorTypeOK ==
    /\ rows \in [TableRows -> RowForms]
    /\ rowKeys \in SUBSET MarketKeys
    /\ disk \in Copies /\ work \in Copies
    /\ pass \in {"none", "m5", "bars", "keys"}
    /\ latecomers \in SUBSET TableRows /\ lateKeys \in SUBSET MarketKeys
    /\ seams \in SUBSET TableRows
    /\ broken \in BOOLEAN
    /\ passes \in 0..MaxPasses /\ lates \in 0..MaxLate

EmptyCopy == [m5 |-> [r \in TableRows |-> "none"], bars |-> [b \in Buckets |-> {}], keys |-> {},
          mark |-> [t \in {"m5", "bars", "keys"} |-> 0]]

MirrorInit ==
    /\ rows = [r \in TableRows |-> "none"] /\ rowKeys = {}
    /\ disk = EmptyCopy /\ work = EmptyCopy /\ pass = "none"
    /\ latecomers = {} /\ lateKeys = {} /\ seams = {}
    /\ broken = FALSE /\ passes = 0 /\ lates = 0

Latest(S) == CHOOSE x \in S : \A y \in S : y <= x
PresentRows(m5) == {r \in TableRows : m5[r] # "none"}

-----------------------------------------------------------------------------
(* Production.                                                             *)

\* A new row behind which others may be missing; the newest may still be half built.
AppendRow(r, form) ==
    /\ \A q \in PresentRows(rows) : q < r
    /\ rows' = [rows EXCEPT ![r] = form]
    /\ UNCHANGED <<rowKeys, disk, work, pass, histories, broken, passes, lates>>

\* The candle of a half-built row is finished.
Finish(r) ==
    /\ rows[r] = "half"
    /\ rows' = [rows EXCEPT ![r] = "whole"]
    /\ UNCHANGED <<rowKeys, disk, work, pass, histories, broken, passes, lates>>

\* A repair or a reader writes a row that was missing.
WriteLate(r, form) ==
    /\ lates < MaxLate /\ lates' = lates + 1
    /\ rows[r] = "none" /\ \E q \in PresentRows(rows) : r < q
    /\ rows' = [rows EXCEPT ![r] = form]
    /\ latecomers' = IF r <= work.mark["m5"] THEN latecomers \cup {r} ELSE latecomers
    /\ UNCHANGED <<rowKeys, disk, work, pass, lateKeys, seams, broken, passes>>

\* _maintain_one_param_set: a key for every finished row that has none of that set.  The
\* sets are saved one after the other, and one that fails leaves the others alone.
WriteKeys(p) ==
    LET new == ({r \in TableRows : rows[r] = "whole"} \X {p}) \ rowKeys
    IN /\ new # {}
       /\ rowKeys' = rowKeys \cup new
       /\ lateKeys' = lateKeys \cup {k \in new : k[1] < work.mark["keys"]}
       /\ UNCHANGED <<rows, disk, work, pass, latecomers, seams, broken, passes, lates>>

-----------------------------------------------------------------------------
(* A pass.                                                                 *)

\* The first rows after a watermark, in their order, as many as a batch holds.
NextBatch(S, mark) ==
    LET after == {r \in S : r > mark}
    IN {r \in after : Cardinality({q \in after : q <= r}) <= Batch}

\* Mutant: the keys are not ordered by their slots.
KeyBatchesUnordered(S, mark) ==
    LET after == {k \in S : k[1] > mark}
    IN {b \in SUBSET after : Cardinality(b) <= Batch /\ (b = after \/ Cardinality(b) = Batch)}

\* The first keys after a watermark, in the order of their slots, as many as a batch holds.
\* Which sets of the last slot are among them is not said.
KeyBatches(S, mark) ==
    LET after == {k \in S : k[1] > mark}
    IN {b \in SUBSET after :
           /\ Cardinality(b) <= Batch /\ (b = after \/ Cardinality(b) = Batch)
           /\ \A k \in b : \A q \in after \ b : k[1] <= q[1]}

\* _kick_reporting_sync: at most one pass at a time.
BeginPass ==
    /\ pass = "none" /\ passes < MaxPasses
    /\ passes' = passes + 1
    /\ pass' = "m5"
    /\ work' = disk
    /\ UNCHANGED <<rows, rowKeys, disk, histories, broken, lates>>

\* sync_m5 copies what production has after the watermark.
SyncM5 ==
    LET batch == NextBatch(PresentRows(rows), work.mark["m5"])
    IN /\ pass = "m5" /\ pass' = "bars"
       /\ work' = IF batch = {} THEN work
                  ELSE [work EXCEPT
                            !.m5 = [r \in TableRows |-> IF r \in batch THEN rows[r] ELSE work.m5[r]],
                            !.mark["m5"] = Latest(batch)]
       /\ UNCHANGED <<rows, rowKeys, disk, histories, broken, passes, lates>>

\* resample_candles: the bar of a bucket is made of the rows that are there.
RowsOf(b) == {r \in TableRows : (r + BarRows - 1) \div BarRows = b}
Bar(m5, b) == {<<r, m5[r]>> : r \in RowsOf(b) \cap PresentRows(m5)}

\* Mutant: the newest bucket is built, too.
ReachedAlways(b, m5) == TRUE

\* The newest bucket is dropped unless the rows reach its end.
Reached(b, m5) == b * BarRows <= Latest(PresentRows(m5))

\* From one bar before the watermark on.
ToBuild(m5, mark) ==
    {b \in Buckets : b + 1 >= mark /\ Bar(m5, b) # {} /\ Reached(b, m5)}

\* sync_derived builds the bars from the copied rows, if there are two of them at least.
SyncBars ==
    LET mark  == work.mark["bars"]
        taken == {r \in PresentRows(work.m5) : \E b \in Buckets : r \in RowsOf(b) /\ b + 1 >= mark}
        build == IF Cardinality(taken) < 2 THEN {} ELSE ToBuild(work.m5, mark)
    IN /\ pass = "bars" /\ pass' = "keys"
       /\ work' = IF build = {} THEN work
                  ELSE [work EXCEPT
                            !.bars = [b \in Buckets |-> IF b \in build THEN Bar(work.m5, b)
                                                                    ELSE work.bars[b]],
                            !.mark["bars"] = Latest(build)]
       /\ UNCHANGED <<rows, rowKeys, disk, histories, broken, passes, lates>>

\* sync_keys; the watermark is the slot of the last key of the batch.  Then all of the
\* pass is committed.
SyncKeys ==
    /\ pass = "keys" /\ pass' = "none"
    /\ \E batch \in KeyBatches(rowKeys, work.mark["keys"]) :
          LET last == Latest({k[1] : k \in batch})
          IN IF batch = {} THEN UNCHANGED <<work, seams>>
             ELSE /\ work' = [work EXCEPT !.keys = work.keys \cup batch, !.mark["keys"] = last]
                  /\ seams' = seams \cup {last}
    /\ disk' = work'
    /\ UNCHANGED <<rows, rowKeys, latecomers, lateKeys, broken, passes, lates>>

\* What has failed is rolled back.
RolledBack == disk

\* An error ends the pass: rollback, and the watermark of the M5 table is empty.
FailPass ==
    /\ pass # "none" /\ pass' = "none"
    /\ disk' = [RolledBack EXCEPT !.mark["m5"] = 0]
    /\ work' = disk'
    /\ broken' = TRUE
    /\ UNCHANGED <<rows, rowKeys, histories, passes, lates>>

\* The program ends within a pass: nothing of it stays.
CutPass ==
    /\ pass # "none" /\ pass' = "none"
    /\ disk' = RolledBack
    /\ work' = disk'
    /\ UNCHANGED <<rows, rowKeys, histories, broken, passes, lates>>

MirrorNext ==
    \/ \E r \in TableRows : \E form \in {"half", "whole"} : AppendRow(r, form)
    \/ \E r \in TableRows : Finish(r)
    \/ \E r \in TableRows : \E form \in {"whole", "null"} : WriteLate(r, form)
    \/ \E p \in ParamSets : WriteKeys(p)
    \/ BeginPass \/ SyncM5 \/ SyncBars \/ SyncKeys \/ FailPass \/ CutPass

MirrorSpec == MirrorInit /\ [][MirrorNext]_mirrorVars

-----------------------------------------------------------------------------
(* Properties.                                                             *)

\* A pass ended at the slot of the key, with the key of another set.
CutOff(k) == k[1] \in seams /\ \E p \in ParamSets \ {k[2]} : <<k[1], p>> \in disk.keys

\* Batches, rollbacks and starts over leave no hole: a row or a key of production up to
\* the watermark of its table is in the copy, unless it was written when the watermark was
\* beyond it, or it is a key of the slot at which a pass ended with the key of another set:
\* by the cap, or because the set was saved after the pass had read.
NothingSkipped ==
    /\ \A r \in PresentRows(rows) \ latecomers :
          r <= disk.mark["m5"] => disk.m5[r] # "none"
    /\ \A k \in rowKeys \ lateKeys :
          k[1] <= disk.mark["keys"] => k \in disk.keys \/ CutOff(k)

\* No bar is written before the copied rows reach its end; and as long as no pass has
\* failed, every bar is exactly what its copied rows make it, whichever batch or pass
\* brought them.
BarsFollowRows ==
    \A b \in Buckets : disk.bars[b] # {} =>
        /\ b * BarRows <= Latest(PresentRows(disk.m5))
        /\ ~broken => disk.bars[b] = Bar(disk.m5, b)
==============================================================================
