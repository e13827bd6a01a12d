------------------------------ MODULE MCListings ------------------------------
(***************************************************************************)
(* Small instances of Listings for TLC.                                    *)
(***************************************************************************)
EXTENDS ListingProperties

\* Pacific daylight time and UTC.
MCOffsets == {-7, 0}

\* An event as an organiser in British summer time created it.
MCStock == IF 1 \in Offsets THEN {apiEventToEvent(0, 1, 1)} ELSE {}
=============================================================================
