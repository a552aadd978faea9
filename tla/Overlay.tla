------------------------------ MODULE Overlay ------------------------------
(***************************************************************************)
(* The store as the engine sees it: the real one, or, in a dry run, the     *)
(* Overlay of internal/store/overlay.go over it.  A row holds a value or    *)
(* NoRow; each call is one step, made under the store's mutex.              *)
(***************************************************************************)
CONSTANTS Rows, NoRow

VARIABLES
    base,      \* the real store (mem.go and file.go alike)
    over,      \* what a dry run wrote
    deleted,   \* what a dry run removed
    dry        \* is this a dry run?

Empty == [row \in Rows |-> NoRow]

EmptyStore ==
    /\ base = Empty /\ over = Empty
    /\ deleted = {} /\ dry = FALSE

\* Mutant: a removed row of the base is still seen.
GetThrough(row) ==
    IF over[row] # NoRow THEN over[row] ELSE base[row]

\* Overlay.get: what was written, unless it was removed what the base has.
OverlayGet(row) ==
    CASE over[row] # NoRow -> over[row]
      [] over[row] = NoRow /\ row \in deleted -> NoRow
      [] OTHER -> base[row]

Get(row) == IF dry THEN OverlayGet(row) ELSE base[row]

Put(row, value) ==
    IF dry
    THEN /\ deleted' = deleted \ {row}
         /\ over' = [over EXCEPT ![row] = value]
         /\ UNCHANGED <<base, dry>>
    ELSE base' = [base EXCEPT ![row] = value] /\ UNCHANGED <<over, deleted, dry>>

Delete(row) ==
    IF dry
    THEN /\ deleted' = deleted \union {row}
         /\ over' = [over EXCEPT ![row] = NoRow]
         /\ UNCHANGED <<base, dry>>
    ELSE base' = [base EXCEPT ![row] = NoRow] /\ UNCHANGED <<over, deleted, dry>>

\* Plan puts an overlay over the store ...
Cover == ~dry /\ dry' = TRUE /\ UNCHANGED <<base, over, deleted>>

\* ... and throws it away.
Discard == dry /\ dry' = FALSE /\ over' = Empty /\ deleted' = {} /\ UNCHANGED base
=============================================================================
