-------------------------- MODULE MCPodExperiments --------------------------
(***************************************************************************)
(* Small clusters and the requests made of them.  A request of scope node, *)
(* container or of another action of scope pod is made alone, with flags   *)
(* from a wide set; two fail or delete requests run against each other.    *)
(* And larger clusters, for the arithmetic of evict-percent.               *)
(***************************************************************************)
EXTENDS PodExperiments

NotGiven == [given |-> "no", val |-> 0]
NoNumber == [given |-> "bad", val |-> 0]
Num(n)   == [given |-> "int", val |-> n]

NoFlags == [ns |-> <<>>, count |-> NotGiven, percent |-> NotGiven, labels |-> <<>>,
            names |-> <<>>, group |-> <<>>, random |-> FALSE,
            ids |-> <<>>, cnames |-> <<>>, index |-> NotGiven]

Pair(k, v) == [form |-> "pair", key |-> k, value |-> v]
Word       == [form |-> "word", key |-> "", value |-> ""]
Illegal(k) == [form |-> "illegal", key |-> k, value |-> "?"]

C(name, id, running) == [name |-> name, id |-> id, running |-> running, runtime |-> "docker"]

P(name, labels, containers) ==
    [ns |-> "default", name |-> name, node |-> "n1", labels |-> labels, terminating |-> FALSE,
     containers |-> containers, ready |-> TRUE, gen |-> 1, rv |-> 0,
     images |-> [k \in DOMAIN containers |-> 0], notes |-> [k \in DOMAIN containers |-> -1]]

P1 == P("p1", [app |-> "a", tier |-> "x"], <<C("c1", "i1", TRUE), C("c2", "i2", TRUE)>>)
P2 == P("p2", [app |-> "a"], <<C("c1", "i3", TRUE)>>)
P3 == P("p3", [app |-> "b", tier |-> "a"], <<C("c1", "", FALSE), C("c2", "i4", TRUE)>>)
P4 == [P("p4", [app |-> "b"], <<C("c1", "i5", TRUE)>>) EXCEPT !.ns = "other"]
P5 == [P("p5", [app |-> "b"], <<C("c2", "i6", TRUE)>>) EXCEPT !.terminating = TRUE]

Letters == <<"a", "b", "c", "d", "e", "f", "g", "h", "i", "j", "k", "l", "m",
             "n", "o", "p", "q", "r", "s", "t", "u", "v", "w", "x", "y">>

\* A crowd in two groups; the pods can be used, but not failed: they are not ready.
Crowd == [k \in DOMAIN Letters |->
            [P(Letters[k], [app |-> "c", tier |-> IF k % 3 = 0 THEN "x" ELSE "y"],
               <<C("c1", "i1", TRUE)>>) EXCEPT !.ready = FALSE]]

AllClusters == {<<P1, P2, P4>>, <<P1, P3, P2, P5>>, SubSeq(Crowd, 1, 7), Crowd}

N(name, labels) == [ns |-> "", name |-> name, labels |-> labels]
TwoNodes == <<N("n1", [zone |-> "z1"]), N("n2", [zone |-> "z2"])>>

\* What selects pods, how many of them, and which containers in them.
Which == {[NoFlags EXCEPT !.names = x[1], !.labels = x[2]] :
            x \in {<<>>, <<"p2", "p1">>, <<"p9">>} \X
                  {<<>>, <<Pair("app", "a")>>, <<Pair("app", "a"), Pair("app", "b")>>,
                   <<Pair("app", "b"), Pair("tier", "x")>>, <<Word>>,
                   <<Illegal("app"), Pair("app", "a")>>}}
HowMany == {[f EXCEPT !.count = x[1], !.percent = x[2], !.group = x[3], !.random = x[4]] :
              f \in {g \in Which : g.names # <<"p9">> /\ Word \notin ToSet(g.labels)},
              x \in ({NotGiven, Num(1), Num(-1)} \X {NotGiven, Num(1), Num(80)}
                      \X {<<>>, <<"app">>, <<"app", "tier">>} \X BOOLEAN)
                    \cup {<<Num(0), NotGiven, <<>>, FALSE>>, <<NotGiven, NoNumber, <<>>, FALSE>>}}
           \cup Which
Inside == {[f EXCEPT !.ids = x[1], !.cnames = x[2], !.index = x[3]] :
             f \in {g \in Which : Word \notin ToSet(g.labels)},
             x \in {<<<<"i1", "i3">>, <<>>, NotGiven>>, <<<<"i4">>, <<>>, NotGiven>>,
                    <<<<>>, <<"c2">>, NotGiven>>, <<<<>>, <<"c1", "c2">>, Num(1)>>,
                    <<<<>>, <<>>, Num(0)>>, <<<<>>, <<>>, Num(1)>>, <<<<>>, <<>>, Num(-1)>>,
                    <<<<>>, <<>>, NoNumber>>, <<<<>>, <<>>, NotGiven>>}}
OfNodes == {[NoFlags EXCEPT !.names = x[1], !.labels = x[2], !.count = x[3], !.group = x[4]] :
              x \in {<<>>, <<"n2">>} \X {<<>>, <<Pair("zone", "z1"), Pair("zone", "z2")>>} \X
                    {NotGiven, Num(1), Num(-1), Num(0)} \X {<<>>, <<"zone">>}}
Elsewhere == {[NoFlags EXCEPT !.ns = n, !.labels = <<Pair("app", "b")>>] :
                n \in {<<"other">>, <<"default", "other">>}}

Request(scope, action, flags) == [scope |-> scope, action |-> action, flags |-> flags]
Nothing == Request("none", "other", NoFlags)

Alone == {Request("pod", "other", f) : f \in HowMany \cup Elsewhere}
         \cup {Request("container", "other", f) : f \in Inside}
         \cup {Request("node", "other", f) : f \in OfNodes}

Named(names) == [NoFlags EXCEPT !.names = names]
FailBoth == Request("pod", "fail", Named(<<"p1", "p2">>))
FailOne  == Request("pod", "fail", [NoFlags EXCEPT !.labels = <<Pair("app", "a")>>,
                                                   !.count = Num(1), !.random = TRUE])
DeleteP2 == Request("pod", "delete", Named(<<"p2">>))

\* Shares of a crowd, of each percentage, and some with a count.
Shares == {Request("pod", "fail",
             [NoFlags EXCEPT !.labels = <<Pair("app", "c")>>, !.percent = Num(x[1]),
                             !.count = x[2], !.group = x[3]]) :
             x \in ((1 .. 120) \X {NotGiven} \X {<<>>, <<"tier">>})
                   \cup ({2, 50, 58, 90} \X {Num(3), Num(14)} \X {<<>>, <<"tier">>})
                   \cup ({-1, -58} \X {NotGiven} \X {<<>>})}

AllRequests == {[e \in Exps |-> IF e = "e1" THEN r ELSE Nothing] : r \in Alone \cup Shares}
               \cup {[e \in Exps |-> IF e = "e1" THEN FailBoth ELSE r] :
                        r \in {FailBoth, FailOne, DeleteP2}}

\* The pairs up to 200% and of up to 25 pods where
\* float64(percent) / 100.0 * float64(n) loses its half: 58% of 25 is 14.499...
LostHalves == {<<58, 25>>, <<-58, 25>>, <<114, 25>>, <<-114, 25>>}

=============================================================================
