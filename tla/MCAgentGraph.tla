---------------------------- MODULE MCAgentGraph ----------------------------
\* Instances of AgentGraph for TLC.
EXTENDS AgentGraph

\* Look-ups and the actions whose results the router or the guardrails treat in
\* a way of their own.
Asking == {"SEARCH_PRODUCTS", "CHECK_STOCK", "CHECK_DELIVERY", "VALIDATE_DISCOUNT"}

\* With the actions that give a turn its cart, its quantity and its order.  Of the
\* others, FIND_ALTERNATIVES and CHECK_PROMOTION are judged like CHECK_STOCK,
\* ADD_TO_CART and UPDATE_CART_ITEM like CREATE_CART.
Selling == Asking \cup {"CREATE_CART", "REMOVE_CART_ITEM", "CREATE_ORDER"}
=============================================================================
