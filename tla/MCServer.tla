------------------------------- MODULE MCServer -------------------------------
EXTENDS Server

MCMessages == [kind : Requests, id : 1..MaxRequests]
===============================================================================
