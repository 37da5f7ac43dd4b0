---------------------------- MODULE MCDispatcher ----------------------------
(* Model-checking definitions for Dispatcher: two game tasks, one of which   *)
(* adds others and one of which has a time limit, and one message release.   *)
EXTENDS Dispatcher

CONSTANTS walk, say, release

MCTask == {walk, say, release, Close, Kill, Term}
MCFront == {release}
MCAdders == {walk, Close}
MCExpiring == {say}
=============================================================================
