-------------------------- MODULE MCWriteBackCache --------------------------
(* WriteBackCache for TLC: ways so few that lines evict each other.          *)
EXTENDS WriteBackCache

Read(l, parts)            == [op |-> "read", line |-> l, range |-> parts, dirty |-> {}]
WriteReq(l, range, dirty) == [op |-> "write", line |-> l, range |-> range, dirty |-> dirty]

\* Reads and writes of a part, of a whole line, and of a line under a mask.
\* With three sets of one way, lines 1 and 4 evict each other, and misses of
\* lines 1, 2 and 3 are one more than the MSHR holds.
Requested == {Read(1, {1}), WriteReq(1, {1}, {1}), WriteReq(1, {1, 2}, {1, 2}),
              WriteReq(1, {1, 2}, {2}), Read(2, {1}), Read(3, {1}), Read(4, {1, 2}),
              WriteReq(4, {1}, {1})}
\* The last request is a read, so that what the first two did is looked at.
AllScripts == {<<r, s, t>> : r, s \in Requested \ {Read(3, {1})},
                             t \in {x \in Requested : x.op = "read"}}

\* A dirty line, a request that evicts it or adds to it, and a look at it.
FlushScripts == {<<WriteReq(1, {1}, {1}), r, Read(1, {1})>> :
                    r \in {Read(2, {1, 2}), WriteReq(1, {1, 2}, {2})}}

\* A line is written, evicted, brought back by a read, written again where it
\* is, read, evicted again and read once more.
TwiceEvicted == {<<WriteReq(1, {1}, {1}), Read(2, {1}), Read(1, {1}), WriteReq(1, {1}, {1}),
                   Read(1, {1}), Read(2, {1}), Read(1, {1})>>}
=============================================================================
