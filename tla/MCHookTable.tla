---------------------------- MODULE MCHookTable -----------------------------
(* HookTable with a short list: the first number is neither the smallest    *)
(* nor the largest, and one number is passed through.  15 is the call -1.   *)
EXTENDS HookTable

MCHooks == <<<<1, "write">>, <<0, "read">>, <<4, "bind">>, <<3, "pass">>>>
MCNumbers == {0, 1, 2, 3, 4, 5, 6, 7, 15}
MCNamed == 0..5
=============================================================================
