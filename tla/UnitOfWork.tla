------------------------------ MODULE UnitOfWork ------------------------------
(***************************************************************************)
(* How an SQLAlchemy session writes a row back under READ COMMITTED.  A    *)
(* flush compares each attribute of an object with the value it was loaded *)
(* with, and only those that differ are in the UPDATE, as absolute values: *)
(* a column the transaction left alone keeps what was committed since.     *)
(***************************************************************************)

\* The committed value after the flush of a column that was read as old and is new now.
Column(current, old, new) == IF new # old THEN new ELSE current
===============================================================================
