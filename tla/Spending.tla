------------------------------ MODULE Spending ------------------------------
(* The two guards of what the assistant spends: CostAuthority, which its     *)
(* turns ask before every attempt, and ProviderCalls, the ledger and the     *)
(* permits of the process that sends. They keep their books apart.           *)
EXTENDS CostAuthority

CONSTANTS
    Calls, Ledgers, None, LedgerOf, Wrappers, Permits, Ceiling, MaxRetries, MaxRepairs

VARIABLES
    call, stale, free, acquired, lock, recorded, lost, paid

Provider == INSTANCE ProviderCalls

-----------------------------------------------------------------------------
\* A ledger's calls exceed its ceiling by one generation and by what could not be
\* recorded, however many wait for its lock.
OneGenerationOver == Provider!OneGenerationOver
=============================================================================
