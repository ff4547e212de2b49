------------------------------- MODULE MCTraversal -------------------------------
(***************************************************************************)
(* Instances of DomainTraversal: domains of one or two fields, and every   *)
(* pair of operations of a small pool, without and with a lock.            *)
(***************************************************************************)
EXTENDS DomainTraversal, MCDomains

x == Field("x")
y == Field("y")
flag == Field("flag")

\* A counter that refuses at its bound, and a reset; two callers.
Counter ==
  Domain(<<IntVar("x", 0, 2, 0)>>,
         <<RefusingOp("inc", <<Below(x, 2)>>, <<Set("x", Plus(x, 1))>>),
           Op("reset", <<>>, <<Set("x", Num(0))>>)>>,
         Binary("lte", x, Num(2)), 2)

\* A flag that one caller's refusals explore in full.
Toggle ==
  Domain(<<BoolVar("flag", FALSE)>>,
         <<RefusingOp("raise", <<Not(flag)>>, <<Set("flag", True)>>),
           Op("lower", <<>>, <<Set("flag", Num(FALSE))>>),
           Op("force", <<>>, <<Set("flag", True)>>)>>,
         True, 1)

\* Two fields that exchange their values.
Swap ==
  Domain(<<IntVar("x", 0, 1, 0), IntVar("y", 0, 1, 1)>>,
         <<BooleanOp("swap", <<>>, <<Set("x", Old(y)), Set("y", x)>>)>>,
         Binary("neq", x, y), 2)

\* An increment without a guard leaves the bounds.
Unbounded ==
  Domain(<<IntVar("x", 0, 2, 0)>>, <<Op("inc", <<>>, <<Set("x", Plus(x, 1))>>)>>, True, 1)

\* The second step breaks the invariant.
Breaking ==
  Domain(<<IntVar("x", 0, 2, 0), BoolVar("flag", FALSE)>>,
         <<Op("inc", <<Below(x, 2)>>, <<Set("x", Plus(x, 1))>>),
           Op("raise", <<Is(x, 1)>>, <<Set("flag", True)>>)>>,
         Binary("implies", flag, Below(x, 2)), 1)

\* Nothing is enabled at first.
Stuck ==
  Domain(<<IntVar("x", 0, 1, 0)>>, <<Op("back", <<Is(x, 1)>>, <<Set("x", Num(0))>>)>>, True, 1)

\* At 1 the way on depends on another field; 2 is entered and never left.
Branching ==
  Domain(<<IntVar("x", 0, 2, 0), BoolVar("flag", FALSE)>>,
         <<Op("arm", <<Is(x, 0), Not(flag)>>, <<Set("flag", True)>>),
           Op("enter", <<Is(x, 0)>>, <<Set("x", Num(1))>>),
           Op("leave", <<Is(x, 1), Binary("or", Is(x, 0), flag)>>, <<Set("x", Num(2))>>)>>,
         True, 1)

Lock == [var |-> "lock", unlocked |-> 0, owners |-> <<1, 2>>]

\* Two actors set and clear x under a lock.
Guarded ==
  [Domain(<<IntVar("x", 0, 1, 0), IntVar("lock", 0, 2, 0)>>,
          <<Op("set", <<Is(x, 0)>>, <<Set("x", Num(1))>>),
            Op("clear", <<Is(x, 1)>>, <<Set("x", Num(0))>>)>>, True, 2)
   EXCEPT !.lock = Lock]

Pool ==
  {Op("up", <<Below(x, 1)>>, <<Set("x", Plus(x, 1))>>),
   Op("wild", <<flag>>, <<Set("x", Plus(x, 1))>>),
   Op("zero", <<Binary("or", flag, Is(x, 1))>>, <<Set("x", Num(0)), Set("flag", Num(FALSE))>>),
   Op("mark", <<Binary("implies", flag, Is(x, 0))>>, <<Set("flag", Old(Is(x, 1)))>>),
   Op("one", <<Binary("and", Not(flag), Is(x, 0))>>,
      <<Set("x", Num(1)), Set("flag", Is(x, 0))>>)}

Paired(first, second) ==
  Domain(<<IntVar("x", 0, 1, 0), BoolVar("flag", FALSE), IntVar("lock", 0, 2, 0)>>,
         <<first, [second EXCEPT !.name = "second"]>>, True, 2)

Pairs == {Paired(first, second) : first, second \in Pool}
LockedPairs == {[pair EXCEPT !.lock = Lock] : pair \in Pairs}

MCSpecs ==
  {Counter, Toggle, Swap, Unbounded, Breaking, Stuck, Branching, Guarded}
    \cup Pairs \cup LockedPairs

Plenty == [states |-> 500, transitions |-> 2000, work |-> 5000]

MCLimits ==
  {Plenty, [Plenty EXCEPT !.states = 3], [Plenty EXCEPT !.states = 2],
   [Plenty EXCEPT !.transitions = 2], [Plenty EXCEPT !.work = 6]}

=============================================================================
