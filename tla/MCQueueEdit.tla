---------------------------- MODULE MCQueueEdit ----------------------------
(* Instances of QueueEdit for TLC. *)
EXTENDS QueueEdit

CONSTANTS h1, h2

Request(kind, targets) == [kind |-> kind, targets |-> targets]
Each(cmds) == Request("each", cmds)
Mine(n) == Song(User, n)
NoRequest == Request("none", <<0>>)
PlayOnly == Request("only", <<1>>)

\* One target of two songs, two targets, a target that adds nothing.
Single == {PlayOnly, Request("only", <<0>>)} \cup
          {Request(k, s) : k \in {"end", "after", "play"}, s \in {<<2>>, <<1, 2>>, <<1, 0>>, <<0>>}} \cup
          {Each(<<DeleteIdCmd(Mine(2)), DeleteIdCmd(Mine(3)), DeleteIdCmd(Mine(1))>>),
           Each(<<MoveIdCmd(Mine(2), 0)>>), Each(<<PlayIdCmd(Mine(2))>>),
           Each(<<ClearCmd>>), Each(<<ShuffleCmd>>)}
Paired == {PlayOnly, Each(<<DeleteIdCmd(Mine(2)), DeleteIdCmd(Mine(1))>>)}

MCWorkloads ==
    {h1 :> r @@ h2 :> NoRequest : r \in Single} \cup
    {h1 :> r @@ h2 :> Request("play", <<1, 1>>) : r \in Paired}
TwoPlays == {h1 :> PlayOnly @@ h2 :> PlayOnly}
=============================================================================
