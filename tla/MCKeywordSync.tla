---------------------------- MODULE MCKeywordSync ----------------------------
(* A small instance of KeywordSync for TLC. *)
EXTENDS KeywordSync

CONSTANTS w1, w2, s1
=============================================================================
