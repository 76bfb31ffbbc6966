----------------------------- MODULE MCJSONLStore -----------------------------
(* Small instance of the session store for TLC. *)
EXTENDS JSONLStore
===============================================================================
