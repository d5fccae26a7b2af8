----------------------------- MODULE MCService ------------------------------
(* Service for TLC: the daemon and a sync command, two sources, two kinds of *)
(* which the second source has but one; the command asks for one kind of one *)
(* source, or for a kind that is disabled there.                             *)
EXTENDS Service

CONSTANTS s1, s2, k1, k2

MCDisabled == {<<s2, k2>>}
MCFilters == {{<<s1, k1>>}, {<<s2, k2>>}}

=============================================================================
