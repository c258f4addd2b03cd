------------------------------- MODULE ApAlu -------------------------------
(***************************************************************************)
(* ap_unit_test_sw (src/env_tests.h): the software reference the tests     *)
(* compare the engine's rows with, on bytes 0 .. ByteMod - 1.              *)
(***************************************************************************)
EXTENDS Integers, Bitwise

CONSTANT ByteMod

ap_unit_test_sw(op, x, y) ==
  CASE op = 0 -> x | y
    [] op = 1 -> x ^^ y
    [] op = 2 -> x & y
    [] op = 3 -> ByteMod - 1 - x
    [] op = 4 -> (x + y) % ByteMod
    [] op = 5 -> (x - y) % ByteMod
    [] op = 6 -> (x * y) % ByteMod
    [] OTHER  -> 0
=============================================================================
