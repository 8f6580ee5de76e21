-------------------------------- MODULE MCApi --------------------------------
EXTENDS Sessions, PersonalData, RateLimiter, TLC

\* The parts of the API share no state: a behaviour exercises one of them, so that their
\* state spaces add up instead of multiplying.
VARIABLE part

apiVars == <<part, sessionVars, personalVars, limiterVars>>

Init ==
  /\ part \in {"sessions", "lists", "profile", "limiter"}
  /\ SessionInit /\ PersonalInit /\ LimiterInit

Next ==
  /\ UNCHANGED part
  /\ \/ part = "sessions" /\ SessionNext /\ UNCHANGED <<personalVars, limiterVars>>
     \/ part = "lists" /\ ListsNext /\ UNCHANGED <<sessionVars, limiterVars>>
     \/ part = "profile" /\ ProfileNext /\ UNCHANGED <<sessionVars, limiterVars>>
     \/ part = "limiter" /\ LimiterNext /\ UNCHANGED <<sessionVars, personalVars>>

Spec == Init /\ [][Next]_apiVars

MCPayloads ==
  {[city |-> 1], [city |-> 2], [skills |-> 2], [skills |-> 3],
   [expected_salary_min |-> 2, expected_salary_max |-> 1]}
MCCityProvince == <<1, 2>>

MCSymmetry == Permutations(Requests) \union Permutations(Tokens) \union Permutations(Calls)
===============================================================================
