---------------------------- MODULE MCOrderConsumer ----------------------------
(***************************************************************************)
(* Three events and three lives of the consumer: an event can be lost at   *)
(* the end of each of two lives and the third still has one to process.    *)
(***************************************************************************)
EXTENDS OrderConsumer

CONSTANT e

MCEvents == {e}
MCMaxLog == 3
MCMaxStarts == 3
===============================================================================
