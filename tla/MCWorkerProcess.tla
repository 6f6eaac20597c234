---------------------------- MODULE MCWorkerProcess ----------------------------
(***************************************************************************)
(* TLC instance of WorkerProcess.                                          *)
(***************************************************************************)
EXTENDS WorkerProcess
===============================================================================
