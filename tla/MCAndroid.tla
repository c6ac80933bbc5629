----------------------------- MODULE MCAndroid -----------------------------
(* The Android tunnel with a handful of threads, lives and tasks.           *)
EXTENDS AndroidTunnel
MCActs == [p \in Plans |-> IF p = "serial" THEN 6 ELSE 2]
=============================================================================
