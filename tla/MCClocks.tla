------------------------------ MODULE MCClocks ------------------------------
(* Clocks with bounds for TLC: time that goes by twice as fast or slower, and *)
(* programs with and without arguments, environment and vDSO.                 *)
EXTENDS Clocks

MCScales == {<<1, 2>>, <<3, 2>>}

\* AT_PAGESZ is 6, AT_FLAGS 8 and AT_UID 11: a value may look like a key.
MCEntries == {<<6, 4096>>, <<8, 0>>, <<11, AT_SYSINFO_EHDR>>}
MCVectors ==
  {<<<<AT_SYSINFO_EHDR, Pointer>>, e, f>> : e, f \in MCEntries}
  \cup {<<<<6, 4096>>, <<8, 0>>, e>> : e \in MCEntries}

MCImages == [args : 0..1, env : 0..2, aux : MCVectors]
MCImage == <<
  [args |-> 1, env |-> 2, aux |-> <<<<AT_SYSINFO_EHDR, Pointer>>, <<6, 4096>>, <<8, 0>>>>],
  [args |-> 1, env |-> 0, aux |-> <<<<6, 4096>>, <<8, 0>>, <<6, 4096>>>>]>>
=============================================================================
