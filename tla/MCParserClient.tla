---------------------------- MODULE MCParserClient ----------------------------
(***************************************************************************)
(* Small instances of ParserClient for TLC: a source file that includes a  *)
(* header, and the header may be added and reparsed on its own.            *)
(***************************************************************************)
EXTENDS ParserClient
CONSTANTS cpp, h

MCIncludes == (cpp :> {h}) @@ (h :> {})
MCBatches == {<<cpp>>}
===============================================================================
