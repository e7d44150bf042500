--------------------------- MODULE PositionStore ---------------------------
(***************************************************************************)
(* What a caller of the daily prediction store may rely on, whatever       *)
(* becomes of the instances that write to it: the first record of a        *)
(* position stays as it is, and a cycle that is told its records are       *)
(* durable finds each of its positions in the store from then on.          *)
(***************************************************************************)
CONSTANTS
    Keys,      \* positions: match, market and line
    Records,   \* records of positions, each with its key
    NoRecord   \* stands for no record

VARIABLES
    stored,    \* per position: its record
    promised   \* positions that some caller was told are durable

StoreInit ==
    /\ stored = [k \in Keys |-> NoRecord]
    /\ promised = {}

\* Positions without a record may get one; the others keep theirs.
Accept ==
    /\ stored' \in [Keys -> Records \cup {NoRecord}]
    /\ \A k \in Keys : IF stored[k] # NoRecord
                       THEN stored'[k] = stored[k]
                       ELSE stored'[k] # NoRecord => stored'[k].key = k
    /\ UNCHANGED promised

\* Only positions that have a record may be called durable.
Promise ==
    /\ promised' \in SUBSET Keys
    /\ promised \subseteq promised'
    /\ \A k \in promised' : stored[k] # NoRecord
    /\ UNCHANGED stored

StoreSpec == StoreInit /\ [][Accept \/ Promise]_<<stored, promised>>
=============================================================================
