------------------------------ MODULE MCReadiness ------------------------------
(* TLC instance of Readiness: an API node of TicTacToe that polls and a        *)
(* session node of Bingo that looks once, both waiting for the Play nodes.     *)
EXTENDS Readiness

CONSTANTS playA, playB, api, session

MCServices == {ApiSpotRoute(api, {playA, playB}), RouteMesh(session, {playA, playB})}
=============================================================================
