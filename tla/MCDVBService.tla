---------------------------- MODULE MCDVBService ----------------------------
(***************************************************************************)
(* Instances of DVBService for TLC.                                        *)
(***************************************************************************)
EXTENDS DVBService

\* Pages are interchangeable, which the safety runs use.
PageSymmetry == Permutations(Pages)

\* Normal and double speed.
ForwardSpeeds == {100, 200}

\* Normal speed, frozen and rewinding.
AnySpeeds == {-100, 0, 100}

\* Every call but Mute and Reset.
DocumentedCalls == OptionalCalls \ {"Mute", "Reset"}

\* Every call but the custom DDS, which changes nothing that the others read.
AnyCalls == OptionalCalls \ {"DDS"}

=============================================================================
