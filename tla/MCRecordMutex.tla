---------------------------- MODULE MCRecordMutex ----------------------------
(* Two addresses: each thread can have allocated a mutex.                  *)
EXTENDS RecordMutex

=============================================================================
