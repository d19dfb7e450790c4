----------------------------- MODULE MCUpdater -----------------------------
(* Model-checking instances of Updater; the .cfg files give the constants.  *)
EXTENDS Updater
=============================================================================
