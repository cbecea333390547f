------------------------------ MODULE ApbaModes ------------------------------
(***************************************************************************)
(* What the APBA power/flash controller promises (spec section 4.2), with *)
(* no threads and no hardware detail: the desired-on intent, whether the  *)
(* APBA is powered (ON) and whether the SPI flash is routed to the host    *)
(* (FLASHING).  The APBA is powered only while it is wanted and the flash *)
(* is not routed; the flash is routed only while the APBA is down.        *)
(* ApbaPower implements it (see ApbaPowerRefinement).                     *)
(***************************************************************************)

VARIABLES
    want,    \* desired_on
    on,      \* the enable sequence ran last (ON)
    routed   \* the flash is routed to the host (FLASHING)

vars == <<want, on, routed>>

TypeOK == want \in BOOLEAN /\ on \in BOOLEAN /\ routed \in BOOLEAN

Init == ~want /\ ~on /\ ~routed

\* enable(): desired-on is set (before the APBA is powered).
Enable == want' = TRUE /\ UNCHANGED <<on, routed>>

\* disable(): desired-on is cleared (before the APBA is powered down).
Disable == want' = FALSE /\ UNCHANGED <<on, routed>>

\* The enable sequence runs: only when wanted and the flash is not routed.
PowerUp == want /\ ~routed /\ on' = TRUE /\ UNCHANGED <<want, routed>>

\* The disable sequence runs.
PowerDown == on' = FALSE /\ UNCHANGED <<want, routed>>

\* Enter flash mode: only once the APBA is down.
Route == ~on /\ routed' = TRUE /\ UNCHANGED <<want, on>>

\* Leave flash mode.
Unroute == routed' = FALSE /\ UNCHANGED <<want, on>>

Next == Enable \/ Disable \/ PowerUp \/ PowerDown \/ Route \/ Unroute

Spec == Init /\ [][Next]_vars

\* Flashing and normal operation are mutually exclusive (spec 4.2).
Exclusive == ~(on /\ routed)

=============================================================================
