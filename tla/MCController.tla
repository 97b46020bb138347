---------------------------- MODULE MCController ----------------------------
EXTENDS Controller, TLC

OnlyDrift == {"RECON_DRIFT"}
=============================================================================
