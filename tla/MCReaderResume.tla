--------------------------- MODULE MCReaderResume ---------------------------
(* Instances of ReaderResume for TLC.                                      *)
EXTENDS ReaderResume
=============================================================================
