--------------------------- MODULE ManagedLedger ---------------------------
(* The contract with everything that manages stored events beside the log:   *)
(* archive, retention and registry act on the same events, at any time.      *)
EXTENDS LedgerArchive, LedgerRetention, LedgerRegistry

managedVars == <<vars, archive, ret, registryVars>>

ManagedInit == Init /\ ArchiveInit /\ RetentionInit /\ RegistryInit

(* A core call leaves the other parts alone, but for the persistent copy of  *)
(* a logged event.                                                           *)
CoreCalls ==
    \/ /\ LogCalls
       /\ PersistLogged
       /\ UNCHANGED <<archive, ret, tags, schemas, hooks>>
    \/ /\ Tick \/ BatchCalls \/ HistoryCalls \/ LimitCalls
       /\ UNCHANGED <<archive, ret, registryVars>>

ManagedNext ==
    \/ CoreCalls
    \/ ArchiveCalls /\ UNCHANGED <<ret, registryVars>>
    \/ RetentionCalls /\ UNCHANGED <<archive, tags, schemas, hooks>> /\ PersistLogged
    \/ RegistryCalls /\ UNCHANGED <<archive, ret>>

ManagedSpec == ManagedInit /\ [][ManagedNext]_managedVars
=============================================================================
