----------------------------- MODULE MCTransport -----------------------------
(***************************************************************************)
(* Transport with two handles, three messages and a channel that holds     *)
(* three units, so that tables and segments are cut anywhere.  The         *)
(* messages have two, one and three segments, empty ones among them; the   *)
(* second one is too large for the receiver.                               *)
(***************************************************************************)
EXTENDS Transport

MCContent == << << <<5, 6>>, << >> >>, << <<4, 3, 0, 2>> >>,
                << << >>, <<2, 1>>, << >> >> >>
=============================================================================
