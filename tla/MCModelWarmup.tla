---- MODULE MCModelWarmup ----
EXTENDS ModelWarmup

MCKeyOf == [chat |-> "small", fallback |-> "small"]
====
