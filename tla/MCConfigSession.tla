-------------------------- MODULE MCConfigSession --------------------------
(***************************************************************************)
(* ConfigSession with one firmware of each kind that a capability tells    *)
(* apart, the ticket flags that make a mode and every config flag but those *)
(* of bits 0 and 3, which no flag of a mode or of another width uses.      *)
(***************************************************************************)
EXTENDS ConfigSession

MCVersions == {Version(1, 3, 0), Version(2, 1, 2), Version(2, 1, 4),
               Version(2, 1, 7), Version(2, 4, 0), Version(5, 1, 0)}
MCTargets == {"none", "CONFIG", "CONFIG2", "UPDATE1"}
MCNames == ({f.name : f \in ToSet(ConfigFlags)} \ {"SEND_REF", "PACING_20MS", "CHAL_BTN_TRIG"})
           \cup {"OATH_HOTP", "CHAL_RESP"}
MCImfs == {16, 32, 65536 * 16}
MCFiles == {[mode |-> mode, target |-> target, options |-> {}, digits |-> 8,
             random |-> random, seed |-> 16] :
            mode \in Modes, target \in {"none", "CONFIG", "CONFIG2"},
            random \in BOOLEAN}
=============================================================================
