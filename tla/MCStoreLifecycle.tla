-------------------------- MODULE MCStoreLifecycle --------------------------
(* Small instances of StoreLifecycle for TLC.                              *)
EXTENDS StoreLifecycle

(* Retry times of the older version: one row has a reading east of UTC, the*)
(* other one that cannot be read.                                          *)
Texts == {[form |-> "legacy", clock |-> 5, zone |-> 2],
          [form |-> "garbled", clock |-> 5, zone |-> 0]}

MCOldTables == {t \in [Rows -> Texts] : \A r, s \in Rows : t[r] = t[s] => r = s}
=============================================================================
