-------------------------- MODULE MCManagedLedger --------------------------
(* Small instances of ManagedLedger for TLC. A profile chosen at the start   *)
(* says which part acts beside the core, so that the parts' own states do    *)
(* not multiply; the codec profile enumerates payloads instead.              *)
EXTENDS ManagedLedger, TLC

-----------------------------------------------------------------------------
(* All payloads up to a length, to compare the decoder with the encoder.     *)

CONSTANT MaxSample      \* length of the longest payload

ASSUME MaxSampleAssumption == MaxSample \in Nat

VARIABLE sample         \* a payload, grown byte by byte

RleInit == sample = <<>>

RleNext == /\ Len(sample) < MaxSample
           /\ \E b \in Byte : sample' = Append(sample, b)

(* The archive's codec loses nothing but a final run, on every payload up to *)
(* the bound (expand_archived_metadata after compress_bytes, tag_raw_bytes). *)
RleRoundTrip == RoundTrips(sample)

-----------------------------------------------------------------------------
CONSTANTS o1, s1, t1, m1, m2, m3, h1, f1, f2, d1, d2, d3, Profiles

VARIABLE profile

(* m1 is empty, m2 starts with the run mark and ends in a run, m3 does not.  *)
MCBytes == [m \in Metadata |->
    IF m = m1 THEN <<>> ELSE IF m = m2 THEN <<1, 2, 2, 2>> ELSE <<2, 1>>]
MCSize == [m \in Metadata |-> Len(MCBytes[m])]
MCOwners == {<<o1>>}
MCRequired == [d \in Definition |->
    IF d = d1 THEN <<f1>> ELSE IF d = d2 THEN <<f1, f2>> ELSE <<f2, f1>>]

Single(m) == <<[submitter |-> o1, event_type |-> t1, metadata |-> m, handle |-> h1]>>
MCBatches == {Single(m2), Single(m3)}

MCInit == ManagedInit /\ RleInit /\ profile \in Profiles

AmendedOnce == DOMAIN versions' # 0..1 /\ \A i \in DOMAIN versions' : Len(versions'[i]) = 2

(* Which parts act in a profile, and how far.                                *)
Within ==
    CASE profile = "archive" ->
            /\ UNCHANGED <<sigs, ret, registryVars>>
            /\ now' <= 1 /\ AmendedOnce
            /\ archive'.config = archive.config \/ archive.total = 0
      [] profile = "erasure" ->
            /\ UNCHANGED <<now, sigs, archive, registryVars>>
            /\ DOMAIN versions' # 0..1
            /\ <<ret'.policy, ret'.default, ret'.recorders>>
                  = <<ret.policy, ret.default, ret.recorders>>
            /\ DOMAIN ret'.holds \subseteq {0} /\ ret'.exceptions = EmptyMap
      [] profile = "sweep" ->
            /\ UNCHANGED <<sigs, archive, registryVars>>
            /\ ret'.requests = <<>>
            /\ versions' # versions => ret'.erased # ret.erased
            /\ DOMAIN ret'.holds \subseteq {0} /\ ret'.exceptions \in {EmptyMap, 1 :> 0}
      [] profile = "tags" ->
            /\ UNCHANGED <<now, sigs, archive, ret, schemas, hooks, ttl>>
            /\ DOMAIN versions' \subseteq {0}
      [] profile = "schemas" -> UNCHANGED <<vars, archive, ret, tags, ttl>>
      [] profile = "ttl" -> UNCHANGED <<now, versions, archive, ret, tags, schemas, hooks>>

MCNext ==
    /\ UNCHANGED profile
    /\ \/ profile # "codec" /\ ManagedNext /\ Within /\ UNCHANGED sample
       \/ profile = "codec" /\ RleNext /\ UNCHANGED managedVars

MCSpec == MCInit /\ [][MCNext]_<<managedVars, sample, profile>>
=============================================================================
