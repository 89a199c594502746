-------------------------- MODULE MCRegistryConfig --------------------------
(***************************************************************************)
(* Configurations of one or two entries; 1000, 1 MB and 1 KB become 3, 4   *)
(* and 2 and the sizes 10 (no multiple of its unit, as 2^32 is none of     *)
(* 1000) and 16.                                                           *)
(***************************************************************************)
EXTENDS RegistryConfig, Sequences

Units == <<1, 3, 4, 2, 2>>
Sizes == <<4, 10, 16, 16, 16>>

\* entries as a configuration
Of(entries) ==
  [k \in 0 .. 5 * Len(entries) |->
     IF k = 0 THEN Len(entries) ELSE entries[(k - 1) \div 5 + 1][Field(k)]]

FromServer == {Of(<< <<2, 3, 5, 1, 9>> >>), Of(<<>>)}
ByDefault  == Of(<< <<1, 1, 2, 1, 3>>, <<3, 2, 3, 3, 1>> >>)

\* No key yet; one that was saved; one a user has written, whose second
\* entry has thresholds that do not fit.
AtFirst == {Nothing, Of(<< <<2, 3, 1, 2, 3>> >>), Of(<< <<2, 1, 3, 2, 3>>, <<3, 5, 7, 9, 1>> >>)}
=============================================================================
