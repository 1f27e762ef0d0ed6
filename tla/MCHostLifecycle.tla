-------------------------- MODULE MCHostLifecycle --------------------------
\* Two packages, one known from the options and one found later; a1 lives in
\* the first, b in the second.
EXTENDS HostLifecycle

CONSTANTS p, q, a1, b

MCHome(a) == IF a = b THEN q ELSE p
=============================================================================
