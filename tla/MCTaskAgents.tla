---------------------------- MODULE MCTaskAgents ----------------------------
EXTENDS TaskAgents

CONSTANTS t1, t2

SomeCallers == {t1, t2}

Answer(chunks, others) == [array |-> TRUE, chunks |-> chunks, others |-> others]
SomeBodies ==
  {Answer({"text", "blank"}, <<>>), Answer({"blank"}, <<"", "foreign">>), Answer({}, <<>>)}

Agent(kind, llm, memory, searxng, provider) ==
  [kind |-> kind, llm |-> llm, memory |-> memory, searxng |-> searxng, provider |-> provider]
SomeSetups ==
  {Agent("planning", TRUE, TRUE, FALSE, "openai"), Agent("planning", FALSE, FALSE, FALSE, "openai"),
   Agent("writing", TRUE, FALSE, FALSE, "anthropic"), Agent("review", TRUE, FALSE, FALSE, "openai"),
   Agent("testing", FALSE, FALSE, FALSE, "openai"), Agent("research", TRUE, TRUE, TRUE, "openai"),
   Agent("research", TRUE, FALSE, FALSE, "anthropic")}

=============================================================================
