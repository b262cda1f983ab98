------------------------------ MODULE MCArgParse ------------------------------
(***************************************************************************)
(* Command lines of up to six arguments: the four options, a file name,   *)
(* and the name of the file the program writes.                            *)
(***************************************************************************)
EXTENDS ArgParse

Arguments == {"--v", "--i", "--o", "--h", "game.bin", "rrpout.bc"}

CommandLinesMC == UNION {[1..n -> Arguments] : n \in 0..6}

\* The one that README.md and compile.sh give.
AsInReadme == {<<"game.bin">>}
=============================================================================
