\* A 429 and a refusal of the paid budget make a failed call.
CONSTANTS
    render = render
    groq = groq
    openai = openai
    Calls = {render}
    Kind <- MCKind
    Targets = {groq, openai}
    Chain <- MCChain
    Paid = {openai}
    Metered = {groq}
SPECIFICATION SpecRouter
INVARIANT RateLimitWhenAllLimited
