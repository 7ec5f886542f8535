------------------------------- MODULE Ledger -------------------------------
(***************************************************************************)
(* The settlement ledger of internal/ledger: the in-memory repository and  *)
(* outbox.  Each of their methods holds its own mutex, so each is one      *)
(* atomic step and a service method that calls three of them is three      *)
(* steps: between EntryExists and SaveBatch, and between SaveBatch and     *)
(* Enqueue, other goroutines run.                                          *)
(*                                                                         *)
(* Data abstraction.  A batch is its pair of equal and opposite entries,   *)
(* balanced by construction, so a batch stands for both: entries holds the *)
(* key of its first entry (the second's is that key with ":credit"), byTx  *)
(* says which transaction a batch was filed under.  A transaction records  *)
(* a given key at most once, so sets lose nothing.                         *)
(***************************************************************************)
EXTENDS Bank

VARIABLES
    entries,    \* keys of InMemoryRepository.entries
    byTx,       \* InMemoryRepository.byTx, as pairs <<transaction, entry key>>
    outbox      \* settlement events of InMemoryOutbox, by the leg they tell of

ledgerVars == <<entries, byTx, outbox>>

EntryKey == {"settle", "reversal"} \X LegKey

\* "<leg key>" for a settlement, "<leg key>:reversal" for its compensation.
SettleKey(l) == <<"settle", KeyOfLeg(l)>>
\* Mutant: the reversal key leaves the source out.
ReversalKeyOfTx(l) == <<"reversal", KeyOf[l[1]]>>

ReversalKey(l) == <<"reversal", KeyOfLeg(l)>>

LedgerTypeOK ==
    /\ entries \subseteq EntryKey
    /\ byTx \subseteq Tx \X EntryKey
    /\ outbox \subseteq Leg

LedgerInit ==
    /\ entries = {}
    /\ byTx = {}
    /\ outbox = {}

EntryExists(k) == k \in entries

\* SaveBatch overwrites entries[k] and appends to byTx: it does not look
\* whether the key is there already.
SaveBatch(t, k) ==
    /\ entries' = entries \cup {k}
    /\ byTx' = byTx \cup {<<t, k>>}
    /\ UNCHANGED outbox

Enqueue(l) ==
    /\ outbox' = outbox \cup {l}
    /\ UNCHANGED <<entries, byTx>>
=============================================================================
