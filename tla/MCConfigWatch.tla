---------------------------- MODULE MCConfigWatch ----------------------------
(***************************************************************************)
(* Two contents that load, one refused after its secret was written back,  *)
(* one that does not parse, and the empty file of a save in two steps.     *)
(***************************************************************************)
EXTENDS ConfigWatch

CONSTANTS one, two, clash, garbled, s1, s2, s3

MCContents == {one, two, clash, garbled, Empty}
MCMalformed == {garbled}
MCInvalid == {clash}
MCStartContent == one
MCSalts == {s1, s2, s3}
=============================================================================
